---- MODULE Spec2Model ----
(***************************************************************************)
(* A model of omgifol's WAD container (src/wad.py) and of the wad2obj       *)
(* geometry export (src/demo/wad2obj.py).                                   *)
(*                                                                         *)
(* Lump names and lump bytes are strings; a group (an OrderedDict) is a     *)
(* sequence of [k, v] pairs with distinct keys, in insertion order.         *)
(***************************************************************************)
EXTENDS Integers, Sequences, FiniteSets, TLC

VARIABLES
    \* ---- WAD load / save (src/wad.py) ----
    structure,   \* which structure definition the WADs were constructed with
    disk,        \* the file system: path -> file or NoFile
    pc,          \* position of the load / save / reload scenario
    wad1,        \* the WAD that loads the source
    wad2,        \* a fresh WAD that reloads what wad1 saved
    wio,         \* entries of the WadIO object of the latest from_file
    err,         \* the exception the latest from_file raised, or "none"
    saveLog,     \* history: the groups to_file asked to serialize, in order
    \* ---- merging groups and WADs (src/wad.py) ----
    mpc,         \* position of the merge scenario
    mA, mB, mC,  \* three group objects of one class
    mAB, mBC,    \* mA + mB and mB + mC
    mL, mR,      \* (mA + mB) + mC and mA + (mB + mC)
    mW,          \* the WAD holding mA plus the WAD holding mB
    \* ---- WAD.to_file step by step, with crashes (src/wad.py) ----
    fpc,         \* position inside to_file
    fwad,        \* the WAD being saved
    use_backup,  \* to_file's local of that name
    prev,        \* history: the file under the target name when the call began
    calls,       \* number of to_file calls begun so far
    \* ---- Polygon.combineSegments (src/demo/wad2obj.py) ----
    cpc,         \* position inside combineSegments
    csegments,   \* self.segments
    segs,        \* the local list of segments not yet in a chain
    chains,      \* the local list of chains
    count,       \* the local counter of chain extensions
    length,      \* the local `length`
    cfaces,      \* self.faces
    ctexcoords,  \* self.textureCoords
    \* ---- objmap: geometry of one map (src/demo/wad2obj.py) ----
    opc,         \* position inside objmap
    edit,        \* the MapEditor: vertexes, linedefs, sidedefs, sectors
    textureSizes,\* texture name -> (width, height)
    vi,          \* the next vertex index
    vertexes,    \* the vertices emitted so far
    polys,       \* the polygons collected so far
    li,          \* number of linedefs processed so far
    oerr,        \* the exception that ended objmap, or "none"
    textureNames,\* the names writemtl returned
    out,         \* the lines written to the .obj file
    \* ---- writemtl: rasters and material records (src/demo/wad2obj.py) ----
    tpc,         \* position inside writemtl
    twad,        \* the WAD: flats, patches, texture definitions
    tnext,       \* number of texture definitions composed so far
    tout,        \* the material records written to doom.mtl, by name
    timages,     \* the rasters saved, in order
    tdiag,       \* the ERROR lines printed
    tnames,      \* the local `names`
    tsizes,      \* the local `textureSizes`
    terr         \* the exception that ended writemtl, or "none"

varsLoad == <<structure, pc, wad1, wad2, wio, err, saveLog>>

varsWad == <<varsLoad, disk>>

varsMerge == <<mpc, mA, mB, mC, mAB, mBC, mL, mR, mW>>

varsFS == <<fpc, fwad, use_backup, prev, calls>>

varsChain == <<cpc, csegments, segs, chains, count, length, cfaces, ctexcoords>>

varsObj == <<opc, edit, textureSizes, vi, vertexes, polys, li, oerr, textureNames, out>>

varsMtl == <<tpc, twad, tnext, tout, timages, tdiag, tnames, tsizes, terr>>

vars == <<varsWad, varsMerge, varsFS, varsChain, varsObj, varsMtl>>

\* what the actions of one scenario leave alone
notWad == <<varsMerge, varsFS, varsChain, varsObj, varsMtl>>

notMerge == <<varsWad, varsFS, varsChain, varsObj, varsMtl>>

notFS == <<varsLoad, varsMerge, varsChain, varsObj, varsMtl>>

notChain == <<varsWad, varsMerge, varsFS, varsObj, varsMtl>>

notObj == <<varsWad, varsMerge, varsFS, varsChain, varsMtl>>

notMtl == <<varsWad, varsMerge, varsFS, varsChain, varsObj>>

----------------------------------------------------------------------------
(* Strings *)

\* the i-th character of s, as a string of length one
Char(s, i) == SubSeq(s, i, i)

\* s from its i-th character on
From(s, i) == SubSeq(s, i, Len(s))

\* does s hold t at position i
HasAt(s, t, i) == i + Len(t) - 1 <= Len(s) /\ SubSeq(s, i, i + Len(t) - 1) = t

\* str.replace(old, new): every non-overlapping occurrence, left to right
RECURSIVE Replace(_, _, _)
Replace(s, old, new) ==
    IF Len(s) = 0 \/ Len(old) = 0 THEN s
    ELSE IF HasAt(s, old, 1)
         THEN new \o Replace(From(s, Len(old) + 1), old, new)
         ELSE Char(s, 1) \o Replace(From(s, 2), old, new)

\* util.wccmp(name, pattern): '?' is any one character, '*' any run of
\* characters (also an empty one)
RECURSIVE wccmp(_, _)
wccmp(z, x) ==
    IF Len(x) = 0 THEN Len(z) = 0
    ELSE IF Char(x, 1) = "*"
         THEN \E k \in 0..Len(z) : wccmp(From(z, k + 1), From(x, 2))
         ELSE /\ Len(z) > 0
              /\ (Char(x, 1) = "?" \/ Char(x, 1) = Char(z, 1))
              /\ wccmp(From(z, 2), From(x, 2))

\* util.inwclist(name, patterns)
inwclist(z, seq) == \E j \in 1..Len(seq) : wccmp(z, seq[j])

----------------------------------------------------------------------------
(* OrderedDict *)

Keys(d) == {d[j].k : j \in 1..Len(d)}

KeySeq(d) == [j \in 1..Len(d) |-> d[j].k]

\* d[key], for a key of d
Get(d, key) == d[CHOOSE j \in 1..Len(d) : d[j].k = key].v

\* d[key] = val: a present key keeps its place, a new one goes last
SetItem(d, key, val) ==
    IF key \in Keys(d)
    THEN [j \in 1..Len(d) |-> IF d[j].k = key THEN [k |-> key, v |-> val] ELSE d[j]]
    ELSE Append(d, [k |-> key, v |-> val])

\* d.update(other)
RECURSIVE Update(_, _)
Update(d, other) ==
    IF Len(other) = 0 THEN d
    ELSE Update(SetItem(d, Head(other).k, Head(other).v), Tail(other))

----------------------------------------------------------------------------
(* The structure definitions *)

GroupDef(cls, name, config) == [cls |-> cls, name |-> name, config |-> config]

\* config of a MarkerGroup: its prefix
MarkerCfg(p) == [prefix |-> p, headers |-> <<>>, tail |-> <<>>, names |-> <<>>]

\* config of a HeaderGroup: [headers, tail]
HeaderCfg(h, t) == [prefix |-> "", headers |-> h, tail |-> t, names |-> <<>>]

\* config of a NameGroup: its name patterns
NameCfg(n) == [prefix |-> "", headers |-> <<>>, tail |-> <<>>, names |-> n]

_mapheaders == <<"E?M?", "MAP??*">>

_maptail == <<"THINGS", "LINEDEFS", "SIDEDEFS", "VERTEXES", "SEGS", "SSECTORS",
              "NODES", "SECTORS", "REJECT", "BLOCKMAP", "BEHAVIOR", "SCRIPT*">>

_glmapheaders == <<"GL_E?M?", "GL_MAP??">>

_glmaptail == <<"GL_VERT", "GL_SEGS", "GL_SSECT", "GL_NODES">>

_graphics == <<"TITLEPIC", "CWILV*", "WI*", "M_*", "INTERPIC", "BRDR*", "PFUB?",
               "ST*", "VICTORY2", "CREDIT", "END?", "WI*", "BOSSBACK", "ENDPIC",
               "HELP", "BOX??", "AMMNUM?", "HELP1", "DIG*">>

defstruct ==
    << GroupDef("MarkerGroup", "sprites",   MarkerCfg("S")),
       GroupDef("MarkerGroup", "patches",   MarkerCfg("P")),
       GroupDef("MarkerGroup", "flats",     MarkerCfg("F")),
       GroupDef("MarkerGroup", "colormaps", MarkerCfg("C")),
       GroupDef("MarkerGroup", "ztextures", MarkerCfg("TX")),
       GroupDef("HeaderGroup", "maps",      HeaderCfg(_mapheaders, _maptail)),
       GroupDef("HeaderGroup", "glmaps",    HeaderCfg(_glmapheaders, _glmaptail)),
       GroupDef("NameGroup",   "music",     NameCfg(<<"D_*">>)),
       GroupDef("NameGroup",   "sounds",    NameCfg(<<"DS*", "DP*">>)),
       GroupDef("TxdefGroup",  "txdefs",    NameCfg(<<"TEXTURE?", "PNAMES">>)),
       GroupDef("NameGroup",   "graphics",  NameCfg(_graphics)),
       GroupDef("NameGroup",   "data",      NameCfg(<<"*">>)) >>

\* A custom structure, as WAD(structure=...) accepts one: the default with a
\* name group for the ACS script lumps declared ahead of the maps.
scriptstruct ==
    SubSeq(defstruct, 1, 5)
    \o << GroupDef("NameGroup", "scripts", NameCfg(<<"BEHAVIOR">>)) >>
    \o SubSeq(defstruct, 6, Len(defstruct))

StructureIds == {"defstruct", "scriptstruct"}

StructOf(id) == IF id = "defstruct" THEN defstruct ELSE scriptstruct

\* the groups in their load order
write_order_AsLoaded ==
    <<"sprites", "patches", "flats", "colormaps", "ztextures", "maps", "glmaps",
      "music", "sounds", "txdefs", "graphics", "data">>

write_order == <<"data", "colormaps", "maps", "glmaps", "txdefs", "sounds",
                 "music", "graphics", "sprites", "patches", "flats", "ztextures">>

----------------------------------------------------------------------------
(* WadIO entries and the been_read tracker *)

\* a directory entry of a WadIO object, not yet read by any group; `claims`
\* is history: the groups that set been_read on it, in order
Entry(rec) == [name |-> rec.name, data |-> rec.data, been_read |-> FALSE, claims |-> <<>>]

\* WadIO(path): the entries of the file, none read
OpenEntries(file) == [j \in 1..Len(file.recs) |-> Entry(file.recs[j])]

\* wadio.entries[i].been_read = True, done by group g
Mark(ents, i, g) ==
    [ents EXCEPT ![i].been_read = TRUE, ![i].claims = Append(@, g)]

LoadResult(ents, items, e) == [ents |-> ents, items |-> items, err |-> e]

----------------------------------------------------------------------------
(* MarkerGroup *)

MarkerPrefix(o) == o.config.prefix \o "*_START"

MarkerSuffix(o) == o.config.prefix \o "*_END"

MarkerAbsSuffix(o) == o.config.prefix \o "_END"

\* is `name` the end of the region that was opened with end name `endswith`
MarkerIsEnd(o, name, endswith) ==
    wccmp(name, endswith) \/ wccmp(name, MarkerAbsSuffix(o))

\* the scan of MarkerGroup.load_wadio from entry i on
RECURSIVE MarkerScan(_, _, _, _, _, _)
MarkerScan(o, ents, items, i, inside, endswith) ==
    IF i > Len(ents) THEN LoadResult(ents, items, "none")
    ELSE IF ents[i].been_read
         THEN MarkerScan(o, ents, items, i + 1, FALSE, endswith)
         ELSE LET name == ents[i].name IN
              IF inside
              THEN IF MarkerIsEnd(o, name, endswith)
                   THEN MarkerScan(o, Mark(ents, i, o.name), items, i + 1, FALSE, endswith)
                   ELSE MarkerScan(o, Mark(ents, i, o.name),
                                   IF Len(ents[i].data) # 0
                                   THEN SetItem(items, name, ents[i].data)
                                   ELSE items,
                                   i + 1, TRUE, endswith)
              ELSE IF wccmp(name, MarkerPrefix(o))
                   THEN MarkerScan(o, Mark(ents, i, o.name), items, i + 1, TRUE,
                                   Replace(name, "START", "END"))
                   ELSE MarkerScan(o, ents, items, i + 1, FALSE, endswith)

MarkerLoad(o, ents) == MarkerScan(o, ents, o.items, 1, FALSE, "")

\* LumpGroup.save_wadio: one record per lump, in the group's order
LumpSave(items) == [j \in 1..Len(items) |-> [name |-> items[j].k, data |-> items[j].v]]

MarkerSave(o) ==
    IF Len(o.items) = 0 THEN <<>>
    ELSE << [name |-> Replace(MarkerPrefix(o), "*", ""), data |-> ""] >>
         \o LumpSave(o.items)
         \o << [name |-> Replace(MarkerSuffix(o), "*", ""), data |-> ""] >>

----------------------------------------------------------------------------
(* HeaderGroup *)

\* the inner while looking past records that are no tail names
RECURSIVE TailLoop_PastGaps(_, _, _, _, _)
TailLoop_PastGaps(o, name, ents, items, i) ==
    IF i > Len(ents)
    THEN [ents |-> ents, items |-> items, i |-> i, added |-> TRUE, err |-> "none"]
    ELSE IF inwclist(ents[i].name, o.config.tail)
         THEN TailLoop_PastGaps(o, name, Mark(ents, i, o.name),
                  SetItem(items, name,
                          SetItem(Get(items, name), ents[i].name, ents[i].data)),
                  i + 1)
         ELSE TailLoop_PastGaps(o, name, ents, items, i + 1)

\* the inner while of HeaderGroup.load_wadio: the records after header `name`
\* whose names are tail names go into the subgroup
RECURSIVE TailLoop(_, _, _, _, _)
TailLoop(o, name, ents, items, i) ==
    IF i <= Len(ents) /\ inwclist(ents[i].name, o.config.tail)
    THEN TailLoop(o, name, Mark(ents, i, o.name),
                  SetItem(items, name,
                          SetItem(Get(items, name), ents[i].name, ents[i].data)),
                  i + 1)
    ELSE [ents |-> ents, items |-> items, i |-> i, added |-> TRUE, err |-> "none"]

\* `for head in self.headers` for the unread entry that was at i when the
\* loop began; its name stays `name` for every head
RECURSIVE HeadLoop(_, _, _, _, _, _, _)
HeadLoop(o, name, ents, items, i, h, added) ==
    IF h > Len(o.config.headers)
    THEN [ents |-> ents, items |-> items, i |-> i, added |-> added, err |-> "none"]
    ELSE IF wccmp(name, o.config.headers[h])
         THEN IF i > Len(ents)
              THEN [ents |-> ents, items |-> SetItem(items, name, <<>>), i |-> i,
                    added |-> TRUE, err |-> "IndexError"]
              ELSE LET t == TailLoop(o, name, Mark(ents, i, o.name),
                                     SetItem(items, name, <<>>), i + 1)
                   IN  HeadLoop(o, name, t.ents, t.items, t.i, h + 1, TRUE)
         ELSE HeadLoop(o, name, ents, items, i, h + 1, added)

\* the outer while of HeaderGroup.load_wadio from entry i on
RECURSIVE HeaderScan(_, _, _, _)
HeaderScan(o, ents, items, i) ==
    IF i > Len(ents) THEN LoadResult(ents, items, "none")
    ELSE IF ents[i].been_read THEN HeaderScan(o, ents, items, i + 1)
    ELSE LET r == HeadLoop(o, ents[i].name, ents, items, i, 1, FALSE) IN
         IF r.err # "none" THEN LoadResult(r.ents, r.items, r.err)
         ELSE HeaderScan(o, r.ents, r.items, IF r.added THEN r.i ELSE r.i + 1)

HeaderLoad(o, ents) == HeaderScan(o, ents, o.items, 1)

\* the records of one subgroup that save_wadio writes: for each declared tail
\* entry t, the lump stored under the key t
TailSave(hs, tail) ==
    LET present == SelectSeq(tail, LAMBDA t : t \in Keys(hs))
    IN  [j \in 1..Len(present) |-> [name |-> present[j], data |-> Get(hs, present[j])]]

RECURSIVE HeaderSaveFrom(_, _)
HeaderSaveFrom(o, j) ==
    IF j > Len(o.items) THEN <<>>
    ELSE << [name |-> o.items[j].k, data |-> ""] >>
         \o TailSave(o.items[j].v, o.config.tail)
         \o HeaderSaveFrom(o, j + 1)

HeaderSave(o) == HeaderSaveFrom(o, 1)

----------------------------------------------------------------------------
(* NameGroup and TxdefGroup *)

\* self.names after __init2__
GroupNames(o) ==
    IF o.cls = "TxdefGroup" THEN <<"TEXTURE?", "PNAMES">> ELSE o.config.names

\* NameGroup.load_wadio without `entry.been_read = True`
RECURSIVE NameScan_NoMark(_, _, _, _)
NameScan_NoMark(o, ents, items, i) ==
    IF i > Len(ents) THEN LoadResult(ents, items, "none")
    ELSE IF ~ents[i].been_read /\ inwclist(ents[i].name, GroupNames(o))
         THEN NameScan_NoMark(o, ents, SetItem(items, ents[i].name, ents[i].data), i + 1)
         ELSE NameScan_NoMark(o, ents, items, i + 1)

\* NameGroup.load_wadio from entry i on
RECURSIVE NameScan(_, _, _, _)
NameScan(o, ents, items, i) ==
    IF i > Len(ents) THEN LoadResult(ents, items, "none")
    ELSE IF ~ents[i].been_read /\ inwclist(ents[i].name, GroupNames(o))
         THEN NameScan(o, Mark(ents, i, o.name),
                       SetItem(items, ents[i].name, ents[i].data), i + 1)
         ELSE NameScan(o, ents, items, i + 1)

NameLoad(o, ents) == NameScan(o, ents, o.items, 1)

----------------------------------------------------------------------------
(* Dispatch on the group class *)

load_wadio(o, ents) ==
    CASE o.cls = "MarkerGroup" -> MarkerLoad(o, ents)
      [] o.cls = "HeaderGroup" -> HeaderLoad(o, ents)
      [] OTHER                 -> NameLoad(o, ents)

save_wadio(o) ==
    CASE o.cls = "MarkerGroup" -> MarkerSave(o)
      [] o.cls = "HeaderGroup" -> HeaderSave(o)
      [] OTHER                 -> LumpSave(o.items)

----------------------------------------------------------------------------
(* WAD *)

FieldNames(struct) == {struct[j].name : j \in 1..Len(struct)}

FieldIndex(struct, f) == CHOOSE j \in 1..Len(struct) : struct[j].name = f

\* WAD.__init__ without from_file: one group object per group definition;
\* `groups` and `dict` (the instance __dict__) both refer to it.  The heap
\* keeps a group object's name and items; its class and config are those of
\* the definition of that name in self.structure.
NewWAD(id) ==
    LET struct == StructOf(id) IN
    [ structure |-> id,
      heap      |-> [j \in 1..Len(struct) |-> [name |-> struct[j].name, items |-> <<>>]],
      groups    |-> [j \in 1..Len(struct) |-> j],
      dict      |-> [f \in FieldNames(struct) |-> FieldIndex(struct, f)] ]

\* the group object at heap place id: group_def[0](*group_def[1:]) and its items
GroupAt(w, id) ==
    LET def == StructOf(w.structure)[FieldIndex(StructOf(w.structure), w.heap[id].name)]
    IN  [cls |-> def.cls, name |-> def.name, config |-> def.config,
         items |-> w.heap[id].items]

\* self.<field>
Attr(w, f) == GroupAt(w, w.dict[f])

\* `for group in self.groups: group.load_wadio(w)` from the k-th group on
RECURSIVE LoadGroups(_, _, _)
LoadGroups(w, ents, k) ==
    IF k > Len(w.groups) THEN [wad |-> w, ents |-> ents, err |-> "none"]
    ELSE LET id == w.groups[k]
             r  == load_wadio(GroupAt(w, id), ents)
             w2 == [w EXCEPT !.heap[id].items = r.items]
         IN  IF r.err # "none" THEN [wad |-> w2, ents |-> r.ents, err |-> r.err]
             ELSE LoadGroups(w2, r.ents, k + 1)

\* `for group in write_order: self.__dict__[group].save_wadio(w)` from the
\* k-th name on: what each call inserted, in call order
RECURSIVE SaveGroups(_, _)
SaveGroups(w, k) ==
    IF k > Len(write_order) THEN <<>>
    ELSE << [grp |-> write_order[k], recs |-> save_wadio(Attr(w, write_order[k]))] >>
         \o SaveGroups(w, k + 1)

\* the records of a sequence of insert calls, in file order
RECURSIVE Flatten(_)
Flatten(log) == IF Len(log) = 0 THEN <<>> ELSE Head(log).recs \o Flatten(Tail(log))

----------------------------------------------------------------------------
(* Files *)

NoFile == [exists |-> FALSE, recs |-> <<>>, complete |-> FALSE, ver |-> 0]

\* a file whose directory holds `recs`; `ver` is history: the to_file call
\* that wrote it (0: it was there before); complete: WadIO.save() has run
File(recs, ver, complete) ==
    [exists |-> TRUE, recs |-> recs, complete |-> complete, ver |-> ver]

Paths == {"in.wad", "out.wad", "out.wad.tmp"}

\* os.path.exists
Exists(d, path) == path \in Paths /\ d[path].exists

----------------------------------------------------------------------------
(* The source records of the load scenario *)

MaxLen == 3

Rec(name, data) == [name |-> name, data |-> data]

Pool ==
    { Rec("S_START", ""), Rec("S_END", ""), Rec("MAP01", ""), Rec("THINGS", "t"),
      Rec("SCRIPTS", "s"), Rec("BEHAVIOR", "b"), Rec("FOO", "f"), Rec("D_RUNNIN", "m") }

SeqsUpTo(S, n) == UNION {[1..m -> S] : m \in 0..n}

\* what `source` may be: an open WadIO object, a path string, anything else
Sources ==
    { [kind |-> "WadIO", path |-> "in.wad"],
      [kind |-> "str",   path |-> "in.wad"],
      [kind |-> "str",   path |-> "out.wad"],
      [kind |-> "other", path |-> ""] }

----------------------------------------------------------------------------
(* WAD.from_file and WAD.to_file as a whole *)

\* from_file without `assert os.path.exists(source)` and without the TypeError
FromFile_Unchecked(w, source, d) ==
    IF source.kind = "other"
    THEN [wad |-> w, ents |-> <<>>, err |-> "none"]
    ELSE LoadGroups(w, OpenEntries(d[source.path]), 1)

\* the outcome of w.from_file(source) on disk d
FromFile(w, source, d) ==
    IF source.kind = "WadIO"
    THEN LoadGroups(w, OpenEntries(d[source.path]), 1)
    ELSE IF source.kind = "str"
         THEN IF Exists(d, source.path)
              THEN LoadGroups(w, OpenEntries(d[source.path]), 1)
              ELSE [wad |-> w, ents |-> <<>>, err |-> "AssertionError"]
         ELSE [wad |-> w, ents |-> <<>>, err |-> "TypeError"]

\* tmpfilename = filename + ".tmp"
TmpName(filename) == filename \o ".tmp"

\* os.remove(path)
DiskRemove(d, path) == [d EXCEPT ![path] = NoFile]

\* `if os.path.exists(tmpfilename): os.remove(tmpfilename)`
DiskRemoveTmp(d, filename) ==
    IF Exists(d, TmpName(filename)) THEN DiskRemove(d, TmpName(filename)) ELSE d

\* os.remove(filename) where os.rename(filename, tmpfilename) should be
DiskRename_Remove(d, filename) == DiskRemove(d, filename)

\* os.rename(filename, tmpfilename)
DiskRename(d, filename) ==
    [d EXCEPT ![TmpName(filename)] = d[filename], ![filename] = NoFile]

\* w = WadIO(filename): a file that is not there is created, without a
\* directory until save(); ver is history, the number of the call that made it
DiskOpen(d, filename, ver) ==
    IF Exists(d, filename) THEN d
    ELSE [d EXCEPT ![filename] = File(<<>>, ver, FALSE)]

\* the wadio.insert calls of the save_wadio calls
DiskInsert(d, filename, recs) == [d EXCEPT ![filename].recs = @ \o recs]

\* w.save()
DiskSave(d, filename) == [d EXCEPT ![filename].complete = TRUE]

\* the disk after a to_file(filename) that ran to its end
DiskAfterToFile(d, filename, recs, ver) ==
    LET backup == Exists(d, filename)
        d1 == IF backup THEN DiskRename(DiskRemoveTmp(d, filename), filename) ELSE d
        d2 == DiskSave(DiskInsert(DiskOpen(d1, filename, ver), filename, recs), filename)
    IN  IF backup THEN DiskRemove(d2, TmpName(filename)) ELSE d2

----------------------------------------------------------------------------
(* The load / save / reload scenario *)

InitWad ==
    /\ structure \in StructureIds
    /\ \E X \in SeqsUpTo(Pool, MaxLen) :
          disk = [p \in Paths |-> IF p = "in.wad" THEN File(X, 0, TRUE) ELSE NoFile]
    /\ pc = "init"
    /\ wad1 = NewWAD(structure)
    /\ wad2 = NewWAD(structure)
    /\ wio = <<>>
    /\ err = "none"
    /\ saveLog = <<>>

\* wad1.from_file(source) on the new WAD
from_file(source) ==
    /\ pc = "init"
    /\ source.kind = "WadIO" => Exists(disk, source.path)
    /\ \E r \in {FromFile(wad1, source, disk)} :
          /\ wad1' = r.wad
          /\ wio' = r.ents
          /\ err' = r.err
          /\ pc' = IF r.err = "none" THEN "loaded" ELSE "failed"
    /\ UNCHANGED <<structure, disk, wad2, saveLog>>
    /\ UNCHANGED notWad

\* wad1.to_file("out.wad")
to_file ==
    /\ pc = "loaded"
    /\ \E log \in {SaveGroups(wad1, 1)} :
          /\ saveLog' = log
          /\ disk' = DiskAfterToFile(disk, "out.wad", Flatten(log), 1)
    /\ pc' = "saved"
    /\ UNCHANGED <<structure, wad1, wad2, wio, err>>
    /\ UNCHANGED notWad

\* wad2.from_file("out.wad") on a second new WAD, after the save
reload ==
    /\ pc = "saved"
    /\ \E r \in {FromFile(wad2, [kind |-> "str", path |-> "out.wad"], disk)} :
          /\ wad2' = r.wad
          /\ wio' = r.ents
          /\ err' = r.err
          /\ pc' = IF r.err = "none" THEN "reloaded" ELSE "failed"
    /\ UNCHANGED <<structure, disk, wad1, saveLog>>
    /\ UNCHANGED notWad

NextWad ==
    \/ \E source \in Sources : from_file(source)
    \/ to_file
    \/ reload

\* the merge scenario has not begun: no group, no result
IdleMerge ==
    /\ mpc = "idle"
    /\ mA = <<>> /\ mB = <<>> /\ mC = <<>>
    /\ mAB = <<>> /\ mBC = <<>> /\ mL = <<>> /\ mR = <<>> /\ mW = <<>>

\* no to_file call is being followed step by step
IdleFS ==
    /\ fpc = "idle"
    /\ fwad = <<>>
    /\ use_backup = FALSE
    /\ prev = NoFile
    /\ calls = 0

\* no combineSegments call is being followed
IdleChain ==
    /\ cpc = "idle"
    /\ csegments = <<>> /\ segs = <<>> /\ chains = <<>>
    /\ count = 0 /\ length = 0
    /\ cfaces = <<>> /\ ctexcoords = <<>>

\* no objmap call is being followed
IdleObj ==
    /\ opc = "idle"
    /\ edit = <<>> /\ textureSizes = <<>>
    /\ vi = 0 /\ vertexes = <<>> /\ polys = <<>>
    /\ li = 0 /\ oerr = "none"
    /\ textureNames = <<>> /\ out = <<>>

\* no writemtl call is being followed
IdleMtl ==
    /\ tpc = "idle"
    /\ twad = <<>>
    /\ tnext = 0
    /\ tout = <<>> /\ timages = <<>> /\ tdiag = <<>>
    /\ tnames = <<>> /\ tsizes = <<>>
    /\ terr = "none"

Init == InitWad /\ IdleMerge /\ IdleFS /\ IdleChain /\ IdleObj /\ IdleMtl

Next == NextWad

Spec == Init /\ [][Next]_vars

----------------------------------------------------------------------------
(* Properties of the load / save / reload scenario *)

\* the WAD that the entries in wio were loaded into
LoadedWad == IF pc = "reloaded" THEN wad2 ELSE wad1

LoadDone == pc \in {"loaded", "saved", "reloaded"}

\* the name -> bytes mapping of a group, and for a header group the
\* name -> (name -> bytes) mapping of its subgroups, without their order
AsMap(items) == {<<items[j].k, items[j].v>> : j \in 1..Len(items)}

GroupMap(o) ==
    IF o.cls = "HeaderGroup"
    THEN {<<o.items[j].k, AsMap(o.items[j].v)>> : j \in 1..Len(o.items)}
    ELSE AsMap(o.items)

\* C1: during one from_file pass every source record is claimed by at most
\* one group: been_read is set on it at most once.
C1_ClaimedAtMostOnce ==
    \A i \in 1..Len(wio) : Len(wio[i].claims) <= 1

\* the records of wio that only the catch-all group claimed
Leftover(i) == \A j \in 1..Len(wio[i].claims) : wio[i].claims[j] = "data"

\* the last leftover record with the name of record i
LastLeftover(i) ==
    CHOOSE j \in 1..Len(wio) :
        /\ wio[j].name = wio[i].name /\ Leftover(j)
        /\ \A m \in (j + 1)..Len(wio) : ~(wio[m].name = wio[i].name /\ Leftover(m))

\* C2: after from_file with the default structure no record is left unclaimed,
\* and every record that no earlier group claimed was claimed by the
\* catch-all group data (after all others) and is held by it under its name.
C2_NothingLeftUnclaimed ==
    (LoadDone /\ structure = "defstruct") =>
        \A i \in 1..Len(wio) :
            /\ wio[i].been_read
            /\ Leftover(i) =>
                  /\ wio[i].claims = <<"data">>
                  /\ wio[i].name \in Keys(Attr(LoadedWad, "data").items)
                  /\ Get(Attr(LoadedWad, "data").items, wio[i].name)
                        = wio[LastLeftover(i)].data

C2_Witness ==
    /\ pc = "loaded" /\ structure = "defstruct"
    /\ \E i, j \in 1..Len(wio) :
          /\ wio[i].claims = <<"data">>
          /\ wio[j].claims # <<>> /\ wio[j].claims # <<"data">>

\* C3: load X, save to Y, load Y into a fresh WAD: every group (and every map
\* subgroup) holds the same name -> bytes mapping as before.
C3_RoundTrip ==
    (pc = "reloaded" /\ structure = "defstruct") =>
        \A f \in FieldNames(defstruct) :
            GroupMap(Attr(wad2, f)) = GroupMap(Attr(wad1, f))

\* the order of groups the claim C6 states
C6_Order == <<"data", "colormaps", "maps", "glmaps", "txdefs", "sounds", "music",
              "graphics", "sprites", "patches", "flats", "ztextures">>

\* C6: to_file asks the groups to serialize in the order data, colormaps,
\* maps, glmaps, txdefs, sounds, music, graphics, sprites, patches, flats,
\* ztextures, each once, and the file holds their records in that order.
C6_WriteOrder ==
    pc \in {"saved", "reloaded"} =>
        /\ [j \in 1..Len(saveLog) |-> saveLog[j].grp] = C6_Order
        /\ \A j \in 1..Len(saveLog) :
              saveLog[j].recs = save_wadio(Attr(wad1, saveLog[j].grp))
        /\ disk["out.wad"].recs = Flatten(saveLog)

C6_Witness ==
    /\ pc = "saved"
    /\ \E a, b, c \in 1..Len(saveLog) :
          /\ saveLog[a].grp = "data" /\ saveLog[a].recs # <<>>
          /\ saveLog[b].grp = "maps" /\ saveLog[b].recs # <<>>
          /\ saveLog[c].grp = "music" /\ saveLog[c].recs # <<>>

\* is `source` a path string that does not exist, or neither a path string
\* nor a WadIO object
BadSource(source) ==
    \/ source.kind = "str" /\ ~Exists(disk, source.path)
    \/ source.kind \notin {"str", "WadIO"}

\* C8: from_file fails on a path that does not exist and on a source that is
\* neither a path string nor a WadIO object, before any group loads: the
\* groups are left as they were and no entry is read.
C8_BadSourceFails ==
    [][\A source \in Sources :
          (BadSource(source) /\ from_file(source)) =>
              /\ pc' = "failed"
              /\ err' = (IF source.kind = "str" THEN "AssertionError" ELSE "TypeError")
              /\ wad1' = wad1
              /\ wio' = <<>>]_vars

C8_Witness ==
    /\ pc = "failed"
    /\ err = "AssertionError"
    /\ disk["in.wad"].recs # <<>>
    /\ wad1 = NewWAD(structure)

----------------------------------------------------------------------------
(* Merging groups: LumpGroup.__add__ and WAD.__add__ *)

\* __add__ with the operands' updates swapped: c.update(other); c.update(self)
Add_LeftWins(a, b) == [a EXCEPT !.items = Update(Update(<<>>, b.items), a.items)]

\* the order a plain dict would give the names
HashOrder == <<"BAZ", "FOO", "BAR">>

\* __add__ whose second update goes through a plain dict: other's names come
\* in hash order, not in other's order
Add_HashOrder(a, b) ==
    LET hashed == SelectSeq(HashOrder, LAMBDA n : n \in Keys(b.items))
    IN  [a EXCEPT !.items =
            Update(Update(<<>>, a.items),
                   [j \in 1..Len(hashed) |-> [k |-> hashed[j], v |-> Get(b.items, hashed[j])]])]

\* LumpGroup.__add__(self, other): a new group of self's class, name and
\* config, updated with self and then with other
Add(a, b) == [a EXCEPT !.items = Update(Update(<<>>, a.items), b.items)]

\* TxdefGroup.__add__: both operands go through txdef.Textures; the texture
\* tables are opaque here, a lump of other replaces the lump of that name
TxdefAdd(a, b) == [a EXCEPT !.items = Update(Update(<<>>, a.items), b.items)]

\* self.__dict__[name] + other.__dict__[name]
GroupAdd(a, b) == IF a.cls = "TxdefGroup" THEN TxdefAdd(a, b) ELSE Add(a, b)

\* WAD.__add__(self, other): a new WAD whose __dict__ entries are the sums;
\* the groups made by its constructor stay in w.groups
WadAdd(w1, w2) ==
    LET struct == StructOf(w1.structure)
        w      == NewWAD(w1.structure)
        n      == Len(struct)
    IN  [ w EXCEPT
            !.heap = w.heap \o
                     [j \in 1..n |->
                        [name  |-> struct[j].name,
                         items |-> GroupAdd(Attr(w1, struct[j].name),
                                            Attr(w2, struct[j].name)).items]],
            !.dict = [f \in FieldNames(struct) |-> n + FieldIndex(struct, f)] ]

----------------------------------------------------------------------------
(* The merge scenario *)

MaxKeys == 2

MergeNames == {"FOO", "BAR", "BAZ"}

\* the group classes of the claim, each with the field of defstruct it fills
MergeFields == {"data", "sprites", "maps"}

\* the entry that operand `tag` holds under any name: a lump, or for a header
\* group a subgroup
MergeVal(f, tag) == IF f = "maps" THEN <<[k |-> "THINGS", v |-> tag]>> ELSE tag

\* the sequences of distinct names
KeySeqs == {q \in SeqsUpTo(MergeNames, MaxKeys) :
               \A i, j \in 1..Len(q) : i # j => q[i] # q[j]}

\* a group object of field f holding the names q, as operand `tag`
MergeGroup(f, q, tag) ==
    LET def == defstruct[FieldIndex(defstruct, f)] IN
    [cls |-> def.cls, name |-> def.name, config |-> def.config,
     items |-> [j \in 1..Len(q) |-> [k |-> q[j], v |-> MergeVal(f, tag)]]]

\* a WAD of the default structure whose group g.name holds g's items
WadWith(g) ==
    LET w == NewWAD("defstruct") IN
    [w EXCEPT !.heap[w.dict[g.name]].items = g.items]

\* the load scenario has not begun
IdleLoad ==
    /\ structure = "defstruct"
    /\ pc = "idle"
    /\ wad1 = <<>> /\ wad2 = <<>> /\ wio = <<>>
    /\ err = "none"
    /\ saveLog = <<>>

IdleWad == IdleLoad /\ disk = [p \in Paths |-> NoFile]

InitMerge ==
    /\ \E f \in MergeFields : \E qa, qb, qc \in KeySeqs :
          /\ mA = MergeGroup(f, qa, "a")
          /\ mB = MergeGroup(f, qb, "b")
          /\ mC = MergeGroup(f, qc, "c")
    /\ mpc = "start"
    /\ mAB = <<>> /\ mBC = <<>> /\ mL = <<>> /\ mR = <<>> /\ mW = <<>>
    /\ IdleWad /\ IdleFS /\ IdleChain /\ IdleObj /\ IdleMtl

\* ab = a + b; bc = b + c
AddPairs ==
    /\ mpc = "start"
    /\ mAB' = Add(mA, mB)
    /\ mBC' = Add(mB, mC)
    /\ mpc' = "pairs"
    /\ UNCHANGED <<mA, mB, mC, mL, mR, mW>>
    /\ UNCHANGED notMerge

\* (a + b) + c and a + (b + c)
AddTriples ==
    /\ mpc = "pairs"
    /\ mL' = Add(mAB, mC)
    /\ mR' = Add(mA, mBC)
    /\ mpc' = "triples"
    /\ UNCHANGED <<mA, mB, mC, mAB, mBC, mW>>
    /\ UNCHANGED notMerge

\* WAD + WAD, for the WADs that hold a and b
AddWads ==
    /\ mpc = "triples"
    /\ mW' = WadAdd(WadWith(mA), WadWith(mB))
    /\ mpc' = "done"
    /\ UNCHANGED <<mA, mB, mC, mAB, mBC, mL, mR>>
    /\ UNCHANGED notMerge

NextMerge == AddPairs \/ AddTriples \/ AddWads

SpecMerge == InitMerge /\ [][NextMerge]_vars

----------------------------------------------------------------------------
(* Properties of the merge *)

\* the names of b that a does not hold, in b's order
NewNames(a, b) == SelectSeq(KeySeq(b), LAMBDA n : n \notin Keys(a))

\* is r the right-biased ordered union of the item lists a and b
IsMergeOf(r, a, b) ==
    /\ KeySeq(r) = KeySeq(a) \o NewNames(a, b)
    /\ \A j \in 1..Len(r) :
          r[j].v = IF r[j].k \in Keys(b) THEN Get(b, r[j].k) ELSE Get(a, r[j].k)

\* C4: a + b is a new group whose names are a's in a's order, then b's new
\* names in b's order, each with b's entry if b holds the name, else a's;
\* WAD + WAD does this for each Name, Marker and Header group.
C4_MergeRightBiased ==
    /\ mpc \in {"pairs", "triples", "done"} =>
          /\ IsMergeOf(mAB.items, mA.items, mB.items)
          /\ mAB.cls = mA.cls /\ mAB.name = mA.name /\ mAB.config = mA.config
    /\ mpc = "done" =>
          \A f \in FieldNames(defstruct) \ {"txdefs"} :
              IsMergeOf(Attr(mW, f).items,
                        Attr(WadWith(mA), f).items, Attr(WadWith(mB), f).items)

C4_Witness ==
    /\ mpc = "done"
    /\ Len(mA.items) = 2 /\ Len(mB.items) = 2
    /\ Keys(mA.items) \cap Keys(mB.items) # {}
    /\ Keys(mB.items) \ Keys(mA.items) # {}
    /\ Attr(mW, mA.name).items = mAB.items

\* C5: (a + b) + c and a + (b + c) hold the same names in the same order with
\* the same entries.
C5_MergeAssociative ==
    mpc \in {"triples", "done"} => mL.items = mR.items

C5_Witness ==
    /\ mpc = "triples"
    /\ Len(mA.items) = 2 /\ Len(mB.items) = 2 /\ Len(mC.items) = 2
    /\ Keys(mA.items) \cap Keys(mC.items) # {}
    /\ Keys(mB.items) \cap Keys(mC.items) # {}
    /\ Keys(mA.items) # Keys(mB.items)
    /\ mA.cls = "HeaderGroup"

----------------------------------------------------------------------------
(* WAD.to_file("out.wad") step by step; the process may stop at any step *)

MaxCalls == 3

Target == "out.wad"

\* the WADs that are saved
FsWads == { WadWith(MergeGroup("data", q, "x")) : q \in {<<>>, <<"FOO">>} }

\* the complete file of an earlier run under the target name
OldTarget == File(<<Rec("OLD", "o")>>, 0, TRUE)

\* what may lie on the disk before the first call: nothing, an earlier
\* complete file under the target name, a leftover backup
FsDisks ==
    { [p \in Paths |->
          IF p = Target /\ t THEN OldTarget
          ELSE IF p = TmpName(Target) /\ b THEN File(<<Rec("STALE", "s")>>, 0, TRUE)
          ELSE NoFile] : t, b \in BOOLEAN }

InitFS ==
    /\ disk \in FsDisks
    /\ fpc = "idle"
    /\ fwad = <<>>
    /\ use_backup = FALSE
    /\ prev = NoFile
    /\ calls = 0
    /\ IdleLoad /\ IdleMerge /\ IdleChain /\ IdleObj /\ IdleMtl

\* a call begins: use_backup = os.path.exists(filename)
ToFileBegin(w) ==
    /\ fpc \in {"idle", "done", "crashed"}
    /\ calls < MaxCalls
    /\ calls' = calls + 1
    /\ fwad' = w
    /\ use_backup' = Exists(disk, Target)
    /\ prev' = disk[Target]
    /\ fpc' = IF Exists(disk, Target) THEN "backup" ELSE "open"
    /\ UNCHANGED disk
    /\ UNCHANGED notFS

\* if os.path.exists(tmpfilename): os.remove(tmpfilename)
ToFileRemoveTmp ==
    /\ fpc = "backup"
    /\ disk' = DiskRemoveTmp(disk, Target)
    /\ fpc' = "rename"
    /\ UNCHANGED <<fwad, use_backup, prev, calls>>
    /\ UNCHANGED notFS

\* os.rename(filename, tmpfilename)
ToFileRename ==
    /\ fpc = "rename"
    /\ disk' = DiskRename(disk, Target)
    /\ fpc' = "open"
    /\ UNCHANGED <<fwad, use_backup, prev, calls>>
    /\ UNCHANGED notFS

\* w = WadIO(filename)
ToFileOpen ==
    /\ fpc = "open"
    /\ disk' = DiskOpen(disk, Target, calls)
    /\ fpc' = "write"
    /\ UNCHANGED <<fwad, use_backup, prev, calls>>
    /\ UNCHANGED notFS

\* for group in write_order: self.__dict__[group].save_wadio(w)
ToFileWrite ==
    /\ fpc = "write"
    /\ disk' = DiskInsert(disk, Target, Flatten(SaveGroups(fwad, 1)))
    /\ fpc' = "save"
    /\ UNCHANGED <<fwad, use_backup, prev, calls>>
    /\ UNCHANGED notFS

\* w.save()
ToFileSave ==
    /\ fpc = "save"
    /\ disk' = DiskSave(disk, Target)
    /\ fpc' = "cleanup"
    /\ UNCHANGED <<fwad, use_backup, prev, calls>>
    /\ UNCHANGED notFS

\* if use_backup: os.remove(tmpfilename)
ToFileRemoveBackup ==
    /\ fpc = "cleanup"
    /\ disk' = IF use_backup THEN DiskRemove(disk, TmpName(Target)) ELSE disk
    /\ fpc' = "done"
    /\ UNCHANGED <<fwad, use_backup, prev, calls>>
    /\ UNCHANGED notFS

\* the process stops inside to_file
Crash ==
    /\ fpc \in {"backup", "rename", "open", "write", "save", "cleanup"}
    /\ fpc' = "crashed"
    /\ UNCHANGED <<disk, fwad, use_backup, prev, calls>>
    /\ UNCHANGED notFS

NextFS ==
    \/ \E w \in FsWads : ToFileBegin(w)
    \/ ToFileRemoveTmp
    \/ ToFileRename
    \/ ToFileOpen
    \/ ToFileWrite
    \/ ToFileSave
    \/ ToFileRemoveBackup
    \/ Crash

SpecFS == InitFS /\ [][NextFS]_vars

----------------------------------------------------------------------------
(* Properties of to_file's handling of the target *)

\* a call on an existing target has begun and has not reached its end
InCallWithBackup == use_backup /\ fpc \notin {"idle", "done"}

\* the file this call writes lies under the target name
NewUnderTarget == disk[Target].exists /\ disk[Target].ver = calls

\* C7: in a to_file call on an existing target, the target is renamed to the
\* backup name before anything new is written, the backup is deleted only
\* once the new file is complete, and so at every point before the end of the
\* call, wherever the process stops, the previous file lies intact under the
\* target name or under the backup name.
C7_PreviousContentKept ==
    /\ InCallWithBackup => (disk[Target] = prev \/ disk[TmpName(Target)] = prev)
    /\ (InCallWithBackup /\ NewUnderTarget) => disk[TmpName(Target)] = prev
    /\ (use_backup /\ fpc # "idle" /\ disk[TmpName(Target)] # prev /\ disk[Target] # prev)
          => (disk[Target].complete /\ disk[Target].ver = calls
              /\ disk[Target].recs = Flatten(SaveGroups(fwad, 1)))

C7_Witness ==
    /\ fpc = "crashed"
    /\ use_backup
    /\ calls = 1
    /\ NewUnderTarget /\ ~disk[Target].complete
    /\ disk[TmpName(Target)] = prev /\ prev.complete

----------------------------------------------------------------------------
(* Polygon.combineSegments *)

\* a segment as addSegment stores it: the tuple (p1, p2, a, b)
Segment(p1, p2, a, b) == [p1 |-> p1, p2 |-> p2, a |-> a, b |-> b]

Last(q) == q[Len(q)]

\* list.pop(): the list without its last element
Front(q) == SubSeq(q, 1, Len(q) - 1)

RemoveAt(q, i) == SubSeq(q, 1, i - 1) \o SubSeq(q, i + 1, Len(q))

\* the list without every element equal to x
RemoveFirst_AllEqual(q, x) == SelectSeq(q, LAMBDA y : y # x)

\* list.remove(x): without the first element equal to x
RemoveFirst(q, x) == RemoveAt(q, CHOOSE i \in 1..Len(q) : q[i] = x /\ \A j \in 1..(i - 1) : q[j] # x)

\* the comparison of the two first points
Matches_BothStarts(segment, end) == segment.p1 = end.p1

\* `segment[1] == end[0]`: does the segment go on from the chain's last one
Matches(segment, end) == segment.p2 = end.p1

\* the chains that some remaining segment matches
Extendable(st) ==
    {c \in 1..Len(st.chains) :
        \E i \in 1..Len(st.segs) : Matches(st.segs[i], Last(st.chains[c]))}

\* the loop condition with `len(segs) >= 0`
LoopGuard_EmptyToo(st, len) == Len(st.segs) >= 0 /\ st.count < len * 2

\* `len(segs)>0 and count < length*2`
LoopGuard(st, len) == Len(st.segs) > 0 /\ st.count < len * 2

\* one pass of the while loop: the first chain (in list order) that a segment
\* matches takes the first such segment; if there is none the last segment
\* starts a new chain
LoopStep(st) ==
    IF Extendable(st) # {}
    THEN LET c == CHOOSE c \in Extendable(st) : \A d \in Extendable(st) : c <= d
             i == CHOOSE i \in 1..Len(st.segs) :
                     /\ Matches(st.segs[i], Last(st.chains[c]))
                     /\ \A j \in 1..(i - 1) : ~Matches(st.segs[j], Last(st.chains[c]))
         IN  [st EXCEPT !.chains[c] = Append(@, st.segs[i]),
                        !.segs = RemoveFirst(st.segs, st.segs[i]),
                        !.count = @ + 1]
    ELSE IF Len(st.segs) = 0
         THEN [st EXCEPT !.err = "IndexError"]
         ELSE [st EXCEPT !.chains = Append(@, <<Last(st.segs)>>),
                         !.segs = Front(st.segs)]

\* the vertex indices of each chain
ChainFaces(chs) ==
    [c \in 1..Len(chs) |-> [j \in 1..Len(chs[c]) |-> chs[c][j].a]]

\* a texture coordinate: the quotient n / d
Frac(n, d) == [n |-> n, d |-> d]

\* the texture coordinates taken from each segment's second point
ChainTexCoords_SecondPoint(chs) ==
    [c \in 1..Len(chs) |->
        [j \in 1..Len(chs[c]) |-> <<Frac(chs[c][j].p2.x, 64), Frac(chs[c][j].p2.y, 64)>>]]

\* (segment[0].x/64., segment[0].y/64.) for each segment of each chain
ChainTexCoords(chs) ==
    [c \in 1..Len(chs) |->
        [j \in 1..Len(chs[c]) |-> <<Frac(chs[c][j].p1.x, 64), Frac(chs[c][j].p1.y, 64)>>]]

\* the while loop of combineSegments, run to its end
RECURSIVE RunLoop(_, _)
RunLoop(st, len) ==
    IF st.err = "none" /\ LoopGuard(st, len) THEN RunLoop(LoopStep(st), len) ELSE st

\* the locals after `chains = [[segs.pop()]]`, for a list that is not empty
StartState(segments) ==
    [segs |-> Front(segments), chains |-> << <<Last(segments)>> >>, count |-> 0,
     err |-> "none"]

\* combineSegments as a whole on a polygon with the given segments: the
\* faces and texture coordinates it adds
Combine(segments) ==
    IF Len(segments) = 0 THEN [faces |-> <<>>, texcoords |-> <<>>, err |-> "none"]
    ELSE LET st == RunLoop(StartState(segments), Len(segments) - 1)
         IN  [faces |-> ChainFaces(st.chains), texcoords |-> ChainTexCoords(st.chains),
              err |-> st.err]

----------------------------------------------------------------------------
(* combineSegments step by step *)

MaxSegs == 4

\* a vertex of the map: its place in edit.vertexes and its coordinates
Pt(id) == [id |-> id, x |-> 64 * id, y |-> 32 * id * id]

\* directed edges between four points: two loops of two, a triangle, paths
EdgePool ==
    { Segment(Pt(e[1]), Pt(e[2]), 10 * e[1] + e[2], 10 * e[2] + e[1]) :
        e \in {<<1, 2>>, <<2, 1>>, <<3, 4>>, <<4, 3>>, <<2, 3>>, <<3, 1>>} }

InitChain ==
    /\ csegments \in SeqsUpTo(EdgePool, MaxSegs)
    /\ cpc = "begin"
    /\ segs = <<>> /\ chains = <<>>
    /\ count = 0 /\ length = 0
    /\ cfaces = <<>> /\ ctexcoords = <<>>
    /\ IdleWad /\ IdleMerge /\ IdleFS /\ IdleObj /\ IdleMtl

\* segs = list(self.segments) ... count = 0, or `return []` for no segment
CombineBegin ==
    /\ cpc = "begin"
    /\ IF Len(csegments) = 0
       THEN /\ cpc' = "done"
            /\ UNCHANGED <<segs, chains, count, length>>
       ELSE /\ segs' = StartState(csegments).segs
            /\ chains' = StartState(csegments).chains
            /\ length' = Len(csegments) - 1
            /\ count' = 0
            /\ cpc' = "loop"
    /\ UNCHANGED <<csegments, cfaces, ctexcoords>>
    /\ UNCHANGED notChain

\* the locals of the loop
LoopState == [segs |-> segs, chains |-> chains, count |-> count, err |-> "none"]

\* one pass of the while loop
CombineStep ==
    /\ cpc = "loop"
    /\ LoopGuard(LoopState, length)
    /\ \E st \in {LoopStep(LoopState)} :
          /\ segs' = st.segs
          /\ chains' = st.chains
          /\ count' = st.count
          /\ cpc' = IF st.err = "none" THEN "loop" ELSE "error"
    /\ UNCHANGED <<csegments, length, cfaces, ctexcoords>>
    /\ UNCHANGED notChain

\* the loop has ended: the chains become faces with texture coordinates
CombineFinish ==
    /\ cpc = "loop"
    /\ ~LoopGuard(LoopState, length)
    /\ cfaces' = cfaces \o ChainFaces(chains)
    /\ ctexcoords' = ctexcoords \o ChainTexCoords(chains)
    /\ cpc' = "done"
    /\ UNCHANGED <<csegments, segs, chains, count, length>>
    /\ UNCHANGED notChain

NextChain == CombineBegin \/ CombineStep \/ CombineFinish

\* combineSegments is sequential code: it goes on while it has a next step
SpecChain == InitChain /\ [][NextChain]_vars /\ WF_vars(NextChain)

----------------------------------------------------------------------------
(* Properties of combineSegments *)

\* C9: combineSegments terminates for every segment list, also for a path
\* that does not close and for several disjoint loops, and extends chains at
\* most 2 * (number of segments) times.
C9_Terminates ==
    /\ <>(cpc = "done")
    /\ [](count <= 2 * Len(csegments))

\* two disjoint closed loops were chained into two faces
C9_Witness ==
    /\ cpc = "done"
    /\ Len(csegments) = 4
    /\ {csegments[j] : j \in 1..4}
          = { Segment(Pt(e[1]), Pt(e[2]), 10 * e[1] + e[2], 10 * e[2] + e[1]) :
                e \in {<<1, 2>>, <<2, 1>>, <<3, 4>>, <<4, 3>>} }
    /\ Len(cfaces) = 2
    /\ count = 2

----------------------------------------------------------------------------
(* objmap: from the map to vertices and polygons *)

\* Polygon.__init__
Polygon(texture) ==
    [texture |-> texture, segments |-> <<>>, faces |-> <<>>, textureCoords |-> <<>>]

\* Polygon.addFace
AddFace(poly, face, coords) ==
    [poly EXCEPT !.faces = Append(@, face), !.textureCoords = Append(@, coords)]

\* Polygon.addSegment
AddSegment(poly, p1, p2, a, b) ==
    [poly EXCEPT !.segments = Append(@, Segment(p1, p2, a, b))]

\* Polygon.combineSegments on a polygon object
CombinePoly(poly) ==
    LET r == Combine(poly.segments)
    IN  [poly EXCEPT !.faces = @ \o r.faces, !.textureCoords = @ \o r.texcoords]

Abs(n) == IF n < 0 THEN -n ELSE n

\* math.sqrt((p1.x-p2.x)**2 + (p1.y-p2.y)**2), for lines whose length is whole
Width(p1, p2) ==
    LET sq == (p1.x - p2.x) * (p1.x - p2.x) + (p1.y - p2.y) * (p1.y - p2.y)
    IN  CHOOSE w \in 0..(Abs(p1.x - p2.x) + Abs(p1.y - p2.y)) : w * w = sq

\* textureSizes.get(name, (64,64))
SizeOrDefault(sizes, name) == IF name \in Keys(sizes) THEN Get(sizes, name) ELSE <<64, 64>>

\* the vertical offset of a texture that hangs from the top, times its height
TopDown(tsize, height, side) == tsize[2] - height - side.off_y

\* the vertical offset of a texture that stands on the bottom, times its height
BottomUp(side) == -side.off_y

\* [(tx,ty),(tw+tx,ty),(tw+tx,th+ty),(tx,th+ty)] with tw = width/tsize[0],
\* th = height/tsize[1], tx = off_x/tsize[0] and ty = tyn/tsize[1]
QuadCoords(tsize, width, height, off_x, tyn) ==
    << <<Frac(off_x, tsize[1]), Frac(tyn, tsize[2])>>,
       <<Frac(width + off_x, tsize[1]), Frac(tyn, tsize[2])>>,
       <<Frac(width + off_x, tsize[1]), Frac(height + tyn, tsize[2])>>,
       <<Frac(off_x, tsize[1]), Frac(height + tyn, tsize[2])>> >>

\* the four vertices of one side with the upper ones first
SideVertexes_UpperFirst(p1, p2, sector) ==
    << <<p1.x, sector.z_ceil, p1.y>>, <<p1.x, sector.z_floor, p1.y>>,
       <<p2.x, sector.z_ceil, p2.y>>, <<p2.x, sector.z_floor, p2.y>> >>

\* the four vertices of one side of a line: lower left, upper left, lower
\* right, upper right
SideVertexes(p1, p2, sector) ==
    << <<p1.x, sector.z_floor, p1.y>>, <<p1.x, sector.z_ceil, p1.y>>,
       <<p2.x, sector.z_floor, p2.y>>, <<p2.x, sector.z_ceil, p2.y>> >>

\* `if line.front != -1:` and its block
FrontSide(st, line, sizes) ==
    IF line.front = -1 THEN st
    ELSE LET p1 == st.edit.vertexes[line.vx_a + 1]
             p2 == st.edit.vertexes[line.vx_b + 1]
             side1 == st.edit.sidedefs[line.front + 1]
             s1 == side1.sector + 1
             sector1 == st.edit.sectors[s1]
             front_lower_left == st.vi
             front_upper_left == st.vi + 1
             front_lower_right == st.vi + 2
             front_upper_right == st.vi + 3
             height == sector1.z_ceil - sector1.z_floor
             tsize == SizeOrDefault(sizes, side1.tx_mid)
             tyn == IF line.lower_unpeg THEN BottomUp(side1) ELSE TopDown(tsize, height, side1)
             poly == AddFace(Polygon(side1.tx_mid),
                             <<front_lower_left, front_lower_right,
                               front_upper_right, front_upper_left>>,
                             QuadCoords(tsize, Width(p1, p2), height, side1.off_x, tyn))
         IN  [st EXCEPT
                !.vertexes = @ \o SideVertexes(p1, p2, sector1),
                !.polys = IF ~line.two_sided /\ side1.tx_mid # "-" THEN Append(@, poly) ELSE @,
                !.edit.sectors[s1].floor =
                    AddSegment(@, p1, p2, front_lower_left, front_lower_right),
                !.edit.sectors[s1].ceil =
                    AddSegment(@, p2, p1, front_upper_right, front_upper_left),
                !.vi = @ + 4]

\* `if line.back != -1:` and its block; textureSizes[...] raises KeyError
BackSide(st, line, sizes) ==
    IF line.back = -1 THEN st
    ELSE LET p1 == st.edit.vertexes[line.vx_a + 1]
             p2 == st.edit.vertexes[line.vx_b + 1]
             side2 == st.edit.sidedefs[line.back + 1]
             s2 == side2.sector + 1
             sector2 == st.edit.sectors[s2]
             back_lower_left == st.vi
             back_upper_left == st.vi + 1
             back_lower_right == st.vi + 2
             back_upper_right == st.vi + 3
             hasMid == ~line.two_sided /\ side2.tx_mid # "-"
             height == sector2.z_ceil - sector2.z_floor
             tsize == Get(sizes, side2.tx_mid)
             tyn == IF line.lower_unpeg THEN BottomUp(side2) ELSE TopDown(tsize, height, side2)
             poly == AddFace(Polygon(side2.tx_mid),
                             <<back_lower_left, back_lower_right,
                               back_upper_right, back_upper_left>>,
                             QuadCoords(tsize, Width(p1, p2), height, side2.off_x, tyn))
             withV == [st EXCEPT !.vertexes = @ \o SideVertexes(p1, p2, sector2)]
         IN  IF hasMid /\ side2.tx_mid \notin Keys(sizes)
             THEN [withV EXCEPT !.err = "KeyError"]
             ELSE [withV EXCEPT
                     !.polys = IF hasMid THEN Append(@, poly) ELSE @,
                     !.edit.sectors[s2].floor =
                         AddSegment(@, p2, p1, back_lower_right, back_lower_left),
                     !.edit.sectors[s2].ceil =
                         AddSegment(@, p1, p2, back_upper_left, back_upper_right),
                     !.vi = @ + 4]

\* the lower step face drawn up to the back ceiling
LowerFace_BackCeil(st, line, sizes, fv, bv) ==
    LET side1 == st.edit.sidedefs[line.front + 1]
        poly == AddFace(Polygon(side1.tx_low), <<fv, fv + 2, bv + 3, bv + 1>>, <<>>)
    IN  IF side1.tx_low # "-" THEN [st EXCEPT !.polys = Append(@, poly)] ELSE st

\* the lower step face: floor1 to floor2
LowerFace(st, line, sizes, fv, bv) ==
    LET p1 == st.edit.vertexes[line.vx_a + 1]
        p2 == st.edit.vertexes[line.vx_b + 1]
        side1 == st.edit.sidedefs[line.front + 1]
        sector1 == st.edit.sectors[side1.sector + 1]
        sector2 == st.edit.sectors[st.edit.sidedefs[line.back + 1].sector + 1]
        height == sector2.z_floor - sector1.z_floor
        tsize == SizeOrDefault(sizes, side1.tx_low)
        tyn == IF line.lower_unpeg THEN TopDown(tsize, height, side1) ELSE BottomUp(side1)
        poly == AddFace(Polygon(side1.tx_low),
                        <<fv, fv + 2, bv + 2, bv>>,
                        QuadCoords(tsize, Width(p1, p2), height, side1.off_x, tyn))
    IN  IF side1.tx_low # "-" THEN [st EXCEPT !.polys = Append(@, poly)] ELSE st

\* the upper step face: ceil1 to ceil2; textureSizes[...] raises KeyError
UpperFace(st, line, sizes, fv, bv) ==
    LET p1 == st.edit.vertexes[line.vx_a + 1]
        p2 == st.edit.vertexes[line.vx_b + 1]
        side1 == st.edit.sidedefs[line.front + 1]
        sector1 == st.edit.sectors[side1.sector + 1]
        sector2 == st.edit.sectors[st.edit.sidedefs[line.back + 1].sector + 1]
        height == sector1.z_ceil - sector2.z_ceil
        tsize == Get(sizes, side1.tx_up)
        tyn == IF line.upper_unpeg THEN TopDown(tsize, height, side1) ELSE BottomUp(side1)
        poly == AddFace(Polygon(side1.tx_up),
                        <<bv + 1, bv + 3, fv + 3, fv + 1>>,
                        QuadCoords(tsize, Width(p1, p2), height, side1.off_x, tyn))
    IN  IF side1.tx_up # "-" /\ ~(sector1.tx_ceil = "F_SKY1" /\ sector2.tx_ceil = "F_SKY1")
        THEN IF side1.tx_up \in Keys(sizes)
             THEN [st EXCEPT !.polys = Append(@, poly)]
             ELSE [st EXCEPT !.err = "KeyError"]
        ELSE st

\* `if line.front != -1 and line.back != -1 and line.two_sided:` and its
\* block; fv and bv are the first vertex index of the front and the back side
StepFaces(st, line, sizes, fv, bv) ==
    IF line.front # -1 /\ line.back # -1 /\ line.two_sided
    THEN UpperFace(LowerFace(st, line, sizes, fv, bv), line, sizes, fv, bv)
    ELSE st

\* the body of the loop over edit.linedefs, for one line
LineStep(st, line, sizes) ==
    LET f == FrontSide(st, line, sizes)
        b == BackSide(f, line, sizes)
    IN  IF b.err = "none" THEN StepFaces(b, line, sizes, st.vi, f.vi) ELSE b

\* for v in edit.vertexes: v.x = -v.x
NegateX(vs) == [i \in 1..Len(vs) |-> [vs[i] EXCEPT !.x = -vs[i].x]]

\* _sectors_with_floor_and_ceil_added
SectorsWithPolys(sectors) ==
    [i \in 1..Len(sectors) |->
        [sectors[i] EXCEPT !.floor = Polygon(sectors[i].tx_floor),
                           !.ceil = Polygon(sectors[i].tx_ceil)]]

\* the sectors after combineSegments on the floor and the ceiling of each
CombinedSectors(sectors) ==
    [i \in 1..Len(sectors) |->
        [sectors[i] EXCEPT !.floor = CombinePoly(@), !.ceil = CombinePoly(@)]]

\* what the loop over the sectors appends to polys: floor, ceil of each
RECURSIVE SectorPolys(_, _)
SectorPolys(sectors, i) ==
    IF i > Len(sectors) THEN <<>>
    ELSE <<sectors[i].floor, sectors[i].ceil>> \o SectorPolys(sectors, i + 1)

----------------------------------------------------------------------------
(* objmap: writing the mesh *)

\* zip(a, b)
Zip(a, b) ==
    [i \in 1..(IF Len(a) < Len(b) THEN Len(a) ELSE Len(b)) |-> <<a[i], b[i]>>]

\* "v %g %g %g\n" % (v[0], v[1]*1.2, v[2])
VLine(v) == [kind |-> "v", x |-> v[1], y |-> Frac(v[2] * 12, 10), z |-> v[3]]

\* the vt lines and the f line of one face
EmitFace(st, vindexes, coords) ==
    LET vts == [i \in 1..Len(coords) |->
                   [kind |-> "vt", u |-> coords[i][1], v |-> coords[i][2]]]
        tindexes == [i \in 1..Len(coords) |-> st.ti + i - 1]
    IN  [st EXCEPT !.out = @ \o vts \o <<[kind |-> "f", pairs |-> Zip(vindexes, tindexes)]>>,
                   !.ti = @ + Len(coords)]

\* for vindexes,textureCoords in zip(poly.getFaces(), poly.getTextureCoords())
RECURSIVE EmitFaces(_, _, _, _)
EmitFaces(st, faces, coords, k) ==
    IF k > Len(faces) \/ k > Len(coords) THEN st
    ELSE EmitFaces(EmitFace(st, faces[k], coords[k]), faces, coords, k + 1)

\* the g and usemtl lines of a polygon
GroupLines(poly, polyindex, names) ==
    << [kind |-> "g", texture |-> poly.texture, polyindex |-> polyindex],
       [kind |-> "usemtl",
        name |-> IF \E j \in 1..Len(names) : names[j] = poly.texture
                 THEN poly.texture ELSE "None"] >>

\* the body of `for poly in polys:` without the two `continue`
EmitPoly_NoSkip(st, poly, names) ==
    LET s1 == [st EXCEPT !.polyindex = @ + 1]
    IN  EmitFaces([s1 EXCEPT !.out = @ \o GroupLines(poly, s1.polyindex, names)],
                  poly.faces, poly.textureCoords, 1)

\* the body of `for poly in polys:`
EmitPoly(st, poly, names) ==
    LET s1 == [st EXCEPT !.polyindex = @ + 1]
    IN  IF poly.texture # ""
        THEN IF poly.texture = "-" \/ poly.texture = "F_SKY1"
             THEN s1
             ELSE EmitFaces([s1 EXCEPT !.out = @ \o GroupLines(poly, s1.polyindex, names)],
                            poly.faces, poly.textureCoords, 1)
        ELSE s1

\* for poly in polys, from the j-th on
RECURSIVE EmitPolys(_, _, _, _)
EmitPolys(st, ps, j, names) ==
    IF j > Len(ps) THEN st
    ELSE EmitPolys(EmitPoly(st, ps[j], names), ps, j + 1, names)

\* the lines of the .obj file
WriteMesh(vs, ps, names) ==
    LET head == << [kind |-> "#"], [kind |-> "mtllib"], [kind |-> "o"] >>
                    \o [i \in 1..Len(vs) |-> VLine(vs[i])]
    IN  EmitPolys([out |-> head, ti |-> 1, polyindex |-> 0], ps, 1, names).out

----------------------------------------------------------------------------
(* objmap step by step *)

MaxUnits == 2

\* a vertex object of the map; id tells the objects apart
Vertex(id, x, y) == [id |-> id, x |-> x, y |-> y]

Linedef(vx_a, vx_b, front, back, two_sided, lower_unpeg, upper_unpeg) ==
    [vx_a |-> vx_a, vx_b |-> vx_b, front |-> front, back |-> back,
     two_sided |-> two_sided, lower_unpeg |-> lower_unpeg, upper_unpeg |-> upper_unpeg]

Sidedef(sector, tx_mid, tx_low, tx_up, off_x, off_y) ==
    [sector |-> sector, tx_mid |-> tx_mid, tx_low |-> tx_low, tx_up |-> tx_up,
     off_x |-> off_x, off_y |-> off_y]

Sector(z_floor, z_ceil, tx_floor, tx_ceil) ==
    [z_floor |-> z_floor, z_ceil |-> z_ceil, tx_floor |-> tx_floor, tx_ceil |-> tx_ceil,
     floor |-> <<>>, ceil |-> <<>>]

Perms(n) == {f \in [1..n -> 1..n] : \A i, j \in 1..n : f[i] = f[j] => i = j}

\* one rectangular sector of w x h units of 64 with four one-sided lines, the
\* lines in the order perm, all running one way round or all the other way,
\* every side with the middle texture mid
RectMap(perm, forward, w, h, mid) ==
    LET ends == [k \in 1..4 |-> IF forward THEN <<k - 1, k % 4>> ELSE <<k % 4, k - 1>>]
    IN  [vertexes |-> << Vertex(0, 64, 64), Vertex(1, 64 + 64 * w, 64),
                         Vertex(2, 64 + 64 * w, 64 + 64 * h), Vertex(3, 64, 64 + 64 * h) >>,
         linedefs |-> [j \in 1..4 |->
                         Linedef(ends[perm[j]][1], ends[perm[j]][2], j - 1, -1,
                                 FALSE, FALSE, FALSE)],
         sidedefs |-> [j \in 1..4 |-> Sidedef(0, mid, "-", "-", 0, 0)],
         sectors |-> << Sector(0, 128, "FLOOR0_1", "CEIL1_1") >>]

RectMaps ==
    { RectMap(perm, forward, w, h, mid) :
        perm \in Perms(4), forward \in BOOLEAN, w \in 1..MaxUnits, h \in 1..MaxUnits,
        mid \in {"-", "BRICK", "NOSIZE"} }

\* two rooms side by side; the line between them has the first room in front
\* and the second, with a higher floor and a lower ceiling, at the back
TwoRoomMap(low, up, unpeg, ceilings, two_sided, backMid) ==
    [vertexes |-> << Vertex(0, 64, 64), Vertex(1, 128, 64), Vertex(2, 128, 128),
                     Vertex(3, 64, 128), Vertex(4, 192, 64), Vertex(5, 192, 128) >>,
     linedefs |-> << Linedef(0, 1, 0, -1, FALSE, FALSE, FALSE),
                     Linedef(1, 2, 1, 4, two_sided, unpeg, unpeg),
                     Linedef(2, 3, 2, -1, FALSE, FALSE, FALSE),
                     Linedef(3, 0, 3, -1, FALSE, FALSE, FALSE),
                     Linedef(1, 4, 5, -1, FALSE, FALSE, FALSE),
                     Linedef(4, 5, 6, -1, FALSE, FALSE, FALSE),
                     Linedef(5, 2, 7, -1, FALSE, FALSE, FALSE) >>,
     sidedefs |-> << Sidedef(0, "-", "-", "-", 0, 0), Sidedef(0, "-", low, up, 8, 4),
                     Sidedef(0, "-", "-", "-", 0, 0), Sidedef(0, "-", "-", "-", 0, 0),
                     Sidedef(1, backMid, "-", "-", 0, 0), Sidedef(1, "BRICK", "-", "-", 0, 0),
                     Sidedef(1, "BRICK", "-", "-", 0, 0), Sidedef(1, "BRICK", "-", "-", 0, 0) >>,
     sectors |-> << Sector(0, 128, "FLOOR0_1", ceilings),
                    Sector(16, 112, "FLOOR0_1", ceilings) >>]

TwoRoomMaps ==
    { TwoRoomMap(low, up, unpeg, ceilings, two_sided, backMid) :
        low \in {"-", "STEP"}, up \in {"-", "UPPER", "NOSIZE"}, unpeg \in BOOLEAN,
        ceilings \in {"CEIL1_1", "F_SKY1"}, two_sided \in BOOLEAN,
        backMid \in {"-", "NOSIZE"} }

\* the sizes of the textures of the WAD; NOSIZE is a name without a size
SizeTable ==
    << [k |-> "BRICK", v |-> <<128, 128>>], [k |-> "STEP", v |-> <<64, 32>>],
       [k |-> "UPPER", v |-> <<32, 64>>] >>

\* one square room with brick walls, its floor and ceiling textures varied:
\* a name, the none name, the sky, no name at all
FlatMaps ==
    { [RectMap([j \in 1..4 |-> j], TRUE, 1, 1, "BRICK")
          EXCEPT !.sectors = << Sector(0, 128, floor, ceil) >>] :
        floor \in {"FLOOR0_1", "-", ""}, ceil \in {"CEIL1_1", "F_SKY1", ""} }

\* the names writemtl returned; CEIL1_1 is a name it did not return
TextureNameList == <<"FLOOR0_1", "BRICK", "STEP", "UPPER">>

InitObj ==
    /\ edit \in RectMaps \cup TwoRoomMaps \cup FlatMaps
    /\ textureSizes = SizeTable
    /\ opc = "begin"
    /\ vi = 0 /\ vertexes = <<>> /\ polys = <<>>
    /\ li = 0 /\ oerr = "none"
    /\ textureNames = TextureNameList /\ out = <<>>
    /\ IdleWad /\ IdleMerge /\ IdleFS /\ IdleChain /\ IdleMtl

\* objmap up to the call of _polygons_with_linedefinitions
ObjBegin ==
    /\ opc = "begin"
    /\ edit' = [edit EXCEPT !.vertexes = NegateX(@), !.sectors = SectorsWithPolys(@)]
    /\ vi' = 1
    /\ vertexes' = <<>>
    /\ polys' = <<>>
    /\ opc' = "lines"
    /\ UNCHANGED <<textureSizes, li, oerr, textureNames, out>>
    /\ UNCHANGED notObj

\* the locals of _polygons_with_linedefinitions
LineState == [edit |-> edit, vi |-> vi, vertexes |-> vertexes, polys |-> polys, err |-> "none"]

\* _polygons_with_linedefinitions: the next line of edit.linedefs
ProcessLinedef ==
    /\ opc = "lines"
    /\ li < Len(edit.linedefs)
    /\ \E st \in {LineStep(LineState, edit.linedefs[li + 1], textureSizes)} :
          /\ edit' = st.edit
          /\ vi' = st.vi
          /\ vertexes' = st.vertexes
          /\ polys' = st.polys
          /\ oerr' = st.err
          /\ opc' = IF st.err = "none" THEN "lines" ELSE "failed"
    /\ li' = li + 1
    /\ UNCHANGED <<textureSizes, textureNames, out>>
    /\ UNCHANGED notObj

\* for sector in edit.sectors: for poly in (sector.floor, sector.ceil):
\* poly.combineSegments(); polys.append(poly)
CombineSectors ==
    /\ opc = "lines"
    /\ li = Len(edit.linedefs)
    /\ edit' = [edit EXCEPT !.sectors = CombinedSectors(@)]
    /\ polys' = polys \o SectorPolys(CombinedSectors(edit.sectors), 1)
    /\ opc' = "write"
    /\ UNCHANGED <<textureSizes, vi, vertexes, li, oerr, textureNames, out>>
    /\ UNCHANGED notObj

\* `with open(filename, "w") as out:` and its block
ObjWrite ==
    /\ opc = "write"
    /\ out' = WriteMesh(vertexes, polys, textureNames)
    /\ opc' = "done"
    /\ UNCHANGED <<edit, textureSizes, vi, vertexes, polys, li, oerr, textureNames>>
    /\ UNCHANGED notObj

NextObj == ObjBegin \/ ProcessLinedef \/ CombineSectors \/ ObjWrite

SpecObj == InitObj /\ [][NextObj]_vars

----------------------------------------------------------------------------
(* Properties of objmap *)

\* one sector, four lines with a front side only, every side texture '-'
BareRect ==
    /\ Len(edit.sectors) = 1
    /\ Len(edit.linedefs) = 4
    /\ \A j \in 1..4 :
          /\ edit.linedefs[j].front # -1
          /\ edit.linedefs[j].back = -1
          /\ ~edit.linedefs[j].two_sided
    /\ \A j \in 1..Len(edit.sidedefs) :
          /\ edit.sidedefs[j].tx_mid = "-"
          /\ edit.sidedefs[j].tx_low = "-"
          /\ edit.sidedefs[j].tx_up = "-"

\* the corners of the map, as objmap sees them
Corners == {<<edit.vertexes[k].x, edit.vertexes[k].y>> : k \in 1..Len(edit.vertexes)}

\* the polygon has one face, a chain of four that visits every corner once
\* at height z, and the i-th texture coordinate is (x/64, y/64) of the i-th
\* vertex of the face
OneQuadOver(poly, z) ==
    /\ Len(poly.segments) = 4
    /\ Len(poly.faces) = 1
    /\ Len(poly.textureCoords) = 1
    /\ Len(poly.faces[1]) = 4
    /\ Len(poly.textureCoords[1]) = 4
    /\ \A i \in 1..4 : poly.faces[1][i] \in 1..Len(vertexes)
    /\ {<<vertexes[poly.faces[1][i]][1], vertexes[poly.faces[1][i]][3]>> : i \in 1..4} = Corners
    /\ \A i \in 1..4 :
          LET v == vertexes[poly.faces[1][i]]
              t == poly.textureCoords[1][i]
          IN  /\ v[2] = z
              /\ t[1].n * 64 = v[1] * t[1].d
              /\ t[2].n * 64 = v[3] * t[2].d

\* C10: for one rectangular sector bounded by four one-sided lines whose side
\* textures are all '-', extraction produces no wall polygon and exactly one
\* floor face and one ceiling face, each a single chain of four segments that
\* visits the four corners once, the i-th texture coordinate of each face
\* being (x/64, y/64) of the i-th face vertex.
C10_BareRectangle ==
    (opc = "done" /\ BareRect) =>
        /\ Cardinality(Corners) = 4
        /\ Len(polys) = 2
        /\ polys[1].texture = edit.sectors[1].tx_floor
        /\ polys[2].texture = edit.sectors[1].tx_ceil
        /\ OneQuadOver(polys[1], edit.sectors[1].z_floor)
        /\ OneQuadOver(polys[2], edit.sectors[1].z_ceil)

\* a bare rectangle that is wider than high, its lines not in order round
\* the sector, has been extracted
C10_Witness ==
    /\ opc = "done"
    /\ BareRect
    /\ edit.vertexes[2].x = -192
    /\ edit.vertexes[3].y = 128
    /\ edit.linedefs[1].vx_a = 2
    /\ edit.linedefs[2].vx_a = 0
    /\ Len(polys) = 2

----------------------------------------------------------------------------
(* writemtl: rasters and material records *)

LowerLetters == "abcdefghijklmnopqrstuvwxyz"

UpperLetters == "ABCDEFGHIJKLMNOPQRSTUVWXYZ"

UpperChar(c) ==
    IF \E i \in 1..Len(LowerLetters) : Char(LowerLetters, i) = c
    THEN Char(UpperLetters, CHOOSE i \in 1..Len(LowerLetters) : Char(LowerLetters, i) = c)
    ELSE c

\* str.upper()
RECURSIVE Upper(_)
Upper(s) == IF Len(s) = 0 THEN s ELSE UpperChar(Char(s, 1)) \o Upper(From(s, 2))

\* the pixel positions of a raster of the given size
Pixels(size) == (0..(size[1] - 1)) \X (0..(size[2] - 1))

\* Image.new('RGB', (width, height)): a black raster
NewImage(width, height) ==
    [size |-> <<width, height>>, px |-> [p \in Pixels(<<width, height>>) |-> "black"]]

\* the raster a graphic or flat lump decodes to
ToImage(lmp) == [size |-> lmp.size, px |-> [p \in Pixels(lmp.size) |-> lmp.colour]]

\* image.paste(stamp, (x, y)): the stamp overwrites what it covers
Paste(image, stamp, x, y) ==
    [image EXCEPT !.px =
        [p \in Pixels(image.size) |->
            IF <<p[1] - x, p[2] - y>> \in Pixels(stamp.size)
            THEN stamp.px[<<p[1] - x, p[2] - y>>]
            ELSE image.px[p]]]

\* the material record written for a name
MaterialRecord(name) == [newmtl |-> name, map_Kd |-> name \o ".png"]

\* one placement, looked up without the test for a missing patch
PlaceOne_NoCheck(st, patchdef, patches, texname) ==
    LET name == Upper(patchdef.name)
    IN  IF name \notin Keys(patches)
        THEN [st EXCEPT !.err = "KeyError"]
        ELSE [st EXCEPT !.image = Paste(@, ToImage(Get(patches, name)), patchdef.x, patchdef.y)]

\* the body of `for patchdef in texture_definition.patches:`
PlaceOne(st, patchdef, patches, texname) ==
    LET name == Upper(patchdef.name)
    IN  IF name \notin Keys(patches)
        THEN [st EXCEPT !.diag = Append(@, [patch |-> name, texture |-> texname])]
        ELSE [st EXCEPT !.image = Paste(@, ToImage(Get(patches, name)), patchdef.x, patchdef.y)]

\* the loop over the placements of one texture definition, from the i-th on
RECURSIVE PlaceAll(_, _, _, _, _)
PlaceAll(st, placements, i, patches, texname) ==
    IF i > Len(placements) \/ st.err # "none" THEN st
    ELSE PlaceAll(PlaceOne(st, placements[i], patches, texname), placements, i + 1,
                  patches, texname)

\* the flats loop: what it saves, writes and appends, from the i-th flat on
RECURSIVE FlatImages(_, _)
FlatImages(flats, i) ==
    IF i > Len(flats) THEN <<>>
    ELSE <<[file |-> flats[i].k \o ".png", image |-> ToImage(flats[i].v)]>>
            \o FlatImages(flats, i + 1)

FlatRecords(flats) == [i \in 1..Len(flats) |-> MaterialRecord(flats[i].k)]

----------------------------------------------------------------------------
(* writemtl step by step *)

MaxPlacements == 2

\* a patch placement of a texture definition
PatchDef(name, x, y) == [name |-> name, x |-> x, y |-> y]

\* a texture definition as txdef.Textures gives it
TextureDef(name, width, height, patches) ==
    [k |-> name, v |-> [width |-> width, height |-> height, patches |-> patches]]

\* a graphic or flat lump, reduced to its size and one colour
Graphic(width, height, colour) == [size |-> <<width, height>>, colour |-> colour]

\* what wad.patches may hold
PatchGroups ==
    { << [k |-> "P1", v |-> Graphic(2, 1, "red")], [k |-> "P2", v |-> Graphic(1, 1, "blue")] >>,
      << [k |-> "P2", v |-> Graphic(1, 1, "blue")] >>,
      << >> }

\* what wad.flats may hold
FlatGroups == { << >>, << [k |-> "FLOOR0_1", v |-> Graphic(1, 1, "grey")] >> }

\* placements: names in either case, a name that no patch has, two offsets
Placements == { PatchDef(n, x, 0) : n \in {"P1", "p2", "GONE"}, x \in {0, 1} }

\* two texture definitions, the first with up to MaxPlacements placements
TxdefLists ==
    { << TextureDef("TA", 2, 1, pa), TextureDef("TB", 1, 1, pb) >> :
        pa \in SeqsUpTo(Placements, MaxPlacements),
        pb \in SeqsUpTo({PatchDef("P2", 0, 0), PatchDef("GONE", 0, 0)}, 1) }

InitMtl ==
    /\ twad \in [flats : FlatGroups, patches : PatchGroups, txdefs : TxdefLists]
    /\ tpc = "begin"
    /\ tnext = 0
    /\ tout = <<>> /\ timages = <<>> /\ tdiag = <<>>
    /\ tnames = <<>> /\ tsizes = <<>>
    /\ terr = "none"
    /\ IdleWad /\ IdleMerge /\ IdleFS /\ IdleChain /\ IdleObj

\* writemtl up to the end of the loop over the flats
MtlFlats ==
    /\ tpc = "begin"
    /\ timages' = FlatImages(twad.flats, 1)
    /\ tout' = FlatRecords(twad.flats)
    /\ tnames' = KeySeq(twad.flats)
    /\ tsizes' = <<>>
    /\ tpc' = "textures"
    /\ UNCHANGED <<twad, tnext, tdiag, terr>>
    /\ UNCHANGED notMtl

\* the body of `for name,texture_definition in t.items():` for the next one
MtlTexture ==
    /\ tpc = "textures"
    /\ tnext < Len(twad.txdefs)
    /\ LET name == twad.txdefs[tnext + 1].k
           def == twad.txdefs[tnext + 1].v
           st == PlaceAll([image |-> NewImage(def.width, def.height), diag |-> tdiag,
                           err |-> "none"],
                          def.patches, 1, twad.patches, name)
       IN  /\ tdiag' = st.diag
           /\ terr' = st.err
           /\ IF st.err = "none"
              THEN /\ timages' = Append(timages, [file |-> name \o ".png", image |-> st.image])
                   /\ tsizes' = SetItem(tsizes, name, st.image.size)
                   /\ tout' = Append(tout, MaterialRecord(name))
                   /\ tnames' = Append(tnames, name)
                   /\ tpc' = "textures"
              ELSE /\ tpc' = "failed"
                   /\ UNCHANGED <<timages, tsizes, tout, tnames>>
    /\ tnext' = tnext + 1
    /\ UNCHANGED twad
    /\ UNCHANGED notMtl

\* return names, textureSizes
MtlReturn ==
    /\ tpc = "textures"
    /\ tnext = Len(twad.txdefs)
    /\ tpc' = "done"
    /\ UNCHANGED <<twad, tnext, tout, timages, tdiag, tnames, tsizes, terr>>
    /\ UNCHANGED notMtl

NextMtl == MtlFlats \/ MtlTexture \/ MtlReturn

SpecMtl == InitMtl /\ [][NextMtl]_vars

----------------------------------------------------------------------------
(* Properties of writemtl *)

\* the placements of a definition that name a patch wad.patches has not
MissingOf(def) ==
    {i \in 1..Len(def.patches) : Upper(def.patches[i].name) \notin Keys(twad.patches)}

\* the placements of a definition whose patch is there and covers pixel p
CoveringOf(def, p) ==
    {i \in (1..Len(def.patches)) \ MissingOf(def) :
        <<p[1] - def.patches[i].x, p[2] - def.patches[i].y>>
            \in Pixels(Get(twad.patches, Upper(def.patches[i].name)).size)}

\* the colour pixel p must have: that of the last declared placement that
\* is there and covers it, black where there is none
ExpectedColour(def, p) ==
    IF CoveringOf(def, p) = {} THEN "black"
    ELSE LET i == CHOOSE i \in CoveringOf(def, p) : \A j \in CoveringOf(def, p) : j <= i
         IN  Get(twad.patches, Upper(def.patches[i].name)).colour

\* the t-th texture definition was composed as the claim says
ComposedRight(t) ==
    LET name == twad.txdefs[t].k
        def == twad.txdefs[t].v
        saved == {j \in 1..Len(timages) : timages[j].file = name \o ".png"}
    IN  /\ Cardinality({d \in 1..Len(tdiag) : tdiag[d].texture = name})
              = Cardinality(MissingOf(def))
        /\ \A i \in MissingOf(def) :
              \E d \in 1..Len(tdiag) :
                  tdiag[d] = [patch |-> Upper(def.patches[i].name), texture |-> name]
        /\ Cardinality(saved) = 1
        /\ \A j \in saved :
              /\ timages[j].image.size = <<def.width, def.height>>
              /\ \A p \in Pixels(<<def.width, def.height>>) :
                    timages[j].image.px[p] = ExpectedColour(def, p)
        /\ \E r \in 1..Len(tout) : tout[r] = MaterialRecord(name)

\* C11: compositing a texture definition of which k placements name a
\* missing patch never raises; it prints exactly k diagnostics, pastes the
\* other placements in declared order (later over earlier) and still saves
\* the raster and writes the material record, for this and for all the
\* following texture definitions.
C11_MissingPatchSkipped ==
    /\ terr = "none"
    /\ tpc # "failed"
    /\ tpc \in {"textures", "done"} => \A t \in 1..tnext : ComposedRight(t)
    /\ tpc = "done" => tnext = Len(twad.txdefs)

\* writemtl returned after a definition with a missing placement between
\* two present ones that overlap, and a following definition
C11_Witness ==
    /\ tpc = "done"
    /\ Len(twad.txdefs) = 2
    /\ twad.txdefs[1].v.patches
          = << PatchDef("P1", 0, 0), PatchDef("GONE", 0, 0) >>
    /\ twad.txdefs[2].v.patches = << PatchDef("P2", 0, 0) >>
    /\ Keys(twad.patches) = {"P1", "P2"}
    /\ Len(tdiag) = 1
    /\ Len(tout) = 2 + Len(twad.flats)

----------------------------------------------------------------------------
(* Properties of the wall faces *)

\* C12: extraction never aborts because a wall face names a texture that
\* the texture-size table has not; it completes and the failure is confined
\* to that one face.
C12_NeverAborts == opc # "failed" /\ oerr = "none"

\* the number of sides of the lines before the k-th
RECURSIVE SidesBefore(_)
SidesBefore(k) ==
    IF k <= 1 THEN 0
    ELSE SidesBefore(k - 1)
            + (IF edit.linedefs[k - 1].front # -1 THEN 1 ELSE 0)
            + (IF edit.linedefs[k - 1].back # -1 THEN 1 ELSE 0)

\* the first vertex index of the front and of the back side of the k-th line
FrontBase(k) == 1 + 4 * SidesBefore(k)

BackBase(k) == FrontBase(k) + 4

\* the wall polygons made of the floor-level vertices of the k-th line only
LowerPolysOf(k) ==
    {j \in 1..Len(polys) :
        /\ polys[j].segments = <<>>
        /\ \E f \in 1..Len(polys[j].faces) :
              {polys[j].faces[f][i] : i \in 1..Len(polys[j].faces[f])}
                  \subseteq {FrontBase(k), FrontBase(k) + 2, BackBase(k), BackBase(k) + 2}}

\* the k-th line has both sides and the two-sided flag, and its sectors'
\* floors differ
IsStep(k) ==
    LET line == edit.linedefs[k]
    IN  /\ line.front # -1 /\ line.back # -1 /\ line.two_sided
        /\ edit.sectors[edit.sidedefs[line.front + 1].sector + 1].z_floor
              # edit.sectors[edit.sidedefs[line.back + 1].sector + 1].z_floor

\* the polygon is the one lower step quad of the k-th line
IsLowerQuadOf(poly, k) ==
    LET line == edit.linedefs[k]
        p1 == edit.vertexes[line.vx_a + 1]
        p2 == edit.vertexes[line.vx_b + 1]
        side1 == edit.sidedefs[line.front + 1]
        floor1 == edit.sectors[side1.sector + 1].z_floor
        floor2 == edit.sectors[edit.sidedefs[line.back + 1].sector + 1].z_floor
        face == poly.faces[1]
        coords == poly.textureCoords[1]
    IN  /\ poly.texture = side1.tx_low
        /\ Len(poly.faces) = 1
        /\ Len(poly.textureCoords) = 1
        /\ face = <<FrontBase(k), FrontBase(k) + 2, BackBase(k) + 2, BackBase(k)>>
        /\ vertexes[face[1]] = <<p1.x, floor1, p1.y>>
        /\ vertexes[face[2]] = <<p2.x, floor1, p2.y>>
        /\ vertexes[face[3]] = <<p2.x, floor2, p2.y>>
        /\ vertexes[face[4]] = <<p1.x, floor2, p1.y>>
        /\ Len(coords) = 4
        /\ coords[3][2].d = coords[1][2].d
        /\ coords[3][2].n - coords[1][2].n = floor2 - floor1

\* C13: a two-sided line with both sides, differing floors and a front lower
\* texture other than '-' gives exactly one lower step polygon with exactly
\* one quad over the front lower-left, front lower-right, back lower-right
\* and back lower-left vertices of that line, of height back floor minus
\* front floor; a lower texture '-' gives no lower polygon.  (Stated for the
\* lines that were processed without an exception.)
C13_LowerStep ==
    (opc \in {"lines", "write", "done"} /\ oerr = "none") =>
        \A k \in 1..li :
            LET side1 == edit.sidedefs[edit.linedefs[k].front + 1]
            IN  /\ (IsStep(k) /\ side1.tx_low # "-") =>
                      /\ Cardinality(LowerPolysOf(k)) = 1
                      /\ \A j \in LowerPolysOf(k) : IsLowerQuadOf(polys[j], k)
                /\ (edit.linedefs[k].front # -1 /\ side1.tx_low = "-") =>
                      LowerPolysOf(k) = {}

\* the step line of the two rooms was processed and has its lower polygon
C13_Witness ==
    /\ opc = "lines"
    /\ oerr = "none"
    /\ li = 2
    /\ IsStep(2)
    /\ edit.sidedefs[2].tx_low = "STEP"
    /\ edit.linedefs[2].lower_unpeg
    /\ Cardinality(LowerPolysOf(2)) = 1

----------------------------------------------------------------------------
(* Loading files with marker regions *)

MaxMark == 5

\* markers of the sprites and patches groups and two lumps with data
MarkPool ==
    { Rec("P_START", ""), Rec("P_END", ""), Rec("S_START", ""), Rec("S_END", ""),
      Rec("SS_END", ""), Rec("A", "a"), Rec("B", "b") }

\* files of up to MaxMark records with different names
MarkFiles ==
    {X \in SeqsUpTo(MarkPool, MaxMark) : \A i, j \in 1..Len(X) : X[i] = X[j] => i = j}

InitMark ==
    /\ structure = "defstruct"
    /\ \E X \in MarkFiles :
          disk = [p \in Paths |-> IF p = "in.wad" THEN File(X, 0, TRUE) ELSE NoFile]
    /\ pc = "init"
    /\ wad1 = NewWAD(structure)
    /\ wad2 = NewWAD(structure)
    /\ wio = <<>>
    /\ err = "none"
    /\ saveLog = <<>>
    /\ IdleMerge /\ IdleFS /\ IdleChain /\ IdleObj /\ IdleMtl

NextMark ==
    \/ from_file([kind |-> "str", path |-> "in.wad"])
    \/ to_file
    \/ reload

SpecMark == InitMark /\ [][NextMark]_vars

\* record i of the loaded file was claimed by group g
ClaimedBy(i, g) == \E j \in 1..Len(wio[i].claims) : wio[i].claims[j] = g

\* the end marker of the region that the start marker at s opens, under
\* the naming rule `ends`: the first record after s whose name ends the
\* region; 0 if there is none
EndOf(s, ends(_)) ==
    IF \E e \in (s + 1)..Len(wio) : ends(wio[e].name)
    THEN CHOOSE e \in (s + 1)..Len(wio) :
            ends(wio[e].name) /\ \A m \in (s + 1)..(e - 1) : ~ends(wio[m].name)
    ELSE 0

\* C14: in MarkerGroup.load_wadio 'inside' goes on only at a start marker
\* and off only at an end marker, and claimed records are passed over: every
\* unclaimed record of non-zero size between a start marker and its end
\* marker is stored in the group, also when a record claimed by an earlier
\* group lies between them.  (Stated for the patches group, which loads
\* after the sprites group.)
C14_RegionSurvivesClaimed ==
    pc = "loaded" =>
        \A s \in 1..Len(wio) :
            (wccmp(wio[s].name, "P*_START") /\ ~ClaimedBy(s, "sprites")) =>
                LET PEnds(n) == wccmp(n, Replace(wio[s].name, "START", "END"))
                                   \/ wccmp(n, "P_END")
                    e == EndOf(s, PEnds)
                IN  e # 0 =>
                        \A i \in (s + 1)..(e - 1) :
                            (wio[i].data # "" /\ ~ClaimedBy(i, "sprites")) =>
                                wio[i].name \in Keys(Attr(wad1, "patches").items)

\* C15: an open MarkerGroup region closes at the first unclaimed record
\* whose name is the literal <prefix>_END or matches <prefix>*_END, whichever
\* start marker opened it: what follows that record is not in the group.
\* (Stated for the sprites group, which loads first, and the first region.)
C15_GenericEndCloses ==
    pc = "loaded" =>
        \A s \in 1..Len(wio) :
            (/\ wccmp(wio[s].name, "S*_START")
             /\ \A m \in 1..(s - 1) : ~wccmp(wio[m].name, "S*_START")) =>
                LET SEnds(n) == wccmp(n, "S_END") \/ wccmp(n, "S*_END")
                    e == EndOf(s, SEnds)
                IN  e # 0 =>
                        \A i \in (e + 1)..Len(wio) :
                            wio[i].name \notin Keys(Attr(wad1, "sprites").items)

----------------------------------------------------------------------------
(* Properties of the maps group *)

\* the groups that load before the maps group
BeforeMaps == {"sprites", "patches", "flats", "colormaps", "ztextures", "scripts"}

\* record i is a header name that no earlier group had claimed
OpensSubgroup(i) ==
    /\ inwclist(wio[i].name, _mapheaders)
    /\ \A g \in BeforeMaps : ~ClaimedBy(i, g)

\* record i follows the header h with nothing but tail names between them
InTailRunOf(i, h) ==
    /\ h < i
    /\ OpensSubgroup(h)
    /\ \A m \in (h + 1)..i : inwclist(wio[m].name, _maptail)

MatchingTail(hs, t) ==
    LET hit == SelectSeq(hs, LAMBDA kv : wccmp(kv.k, t))
    IN  [j \in 1..Len(hit) |-> [name |-> hit[j].k, data |-> hit[j].v]]

\* the records of subgroup hs by the declared tail patterns, from the k-th on
RECURSIVE ByTailOrder(_, _, _)
ByTailOrder(hs, tail, k) ==
    IF k > Len(tail) THEN <<>>
    ELSE MatchingTail(hs, tail[k]) \o ByTailOrder(hs, tail, k + 1)

\* a header record and then the subgroup's records, for each subgroup from
\* the j-th on
RECURSIVE HeadersAndTails(_, _, _)
HeadersAndTails(items, tail, j) ==
    IF j > Len(items) THEN <<>>
    ELSE << [name |-> items[j].k, data |-> ""] >>
            \o ByTailOrder(items[j].v, tail, 1)
            \o HeadersAndTails(items, tail, j + 1)

\* C17: HeaderGroup.save_wadio writes, for each subgroup in order, an empty
\* header record and then every record of the subgroup whose name matches a
\* declared tail pattern, once each, in the order of the tail-pattern list;
\* no record that load_wadio put into a subgroup is left out.
C17_SavesEveryTail ==
    pc \in {"saved", "reloaded"} =>
        \A j \in 1..Len(saveLog) :
            saveLog[j].grp = "maps" =>
                saveLog[j].recs = HeadersAndTails(Attr(wad1, "maps").items, _maptail, 1)

----------------------------------------------------------------------------
(* Properties of the chains *)

\* C18: in every chain each segment appended after the seed starts where the
\* chain's last segment ends, so that segment k ends where segment k+1
\* starts.
C18_DirectionOfTravel ==
    \A c \in 1..Len(chains) :
        \A k \in 1..(Len(chains[c]) - 1) : chains[c][k].p2 = chains[c][k + 1].p1

\* the set of the segments of a list
SegSet(q) == {q[j] : j \in 1..Len(q)}

\* the segments are all different and each point on them is the start of
\* exactly one and the end of exactly one: vertex-disjoint simple closed loops
IsLoops(q) ==
    /\ Len(q) > 0
    /\ Cardinality(SegSet(q)) = Len(q)
    /\ \A s \in SegSet(q) :
          /\ s.p1 # s.p2
          /\ Cardinality({t \in SegSet(q) : t.p1 = s.p2}) = 1
          /\ Cardinality({t \in SegSet(q) : t.p2 = s.p1}) = 1
          /\ Cardinality({t \in SegSet(q) : t.p1 = s.p1}) = 1

\* the segments reached from those of S by going on n times
RECURSIVE Onward(_, _, _)
Onward(S, all, n) ==
    IF n = 0 THEN S
    ELSE Onward(S \cup {t \in all : \E s \in S : t.p1 = s.p2}, all, n - 1)

\* the loops of a list of segments that IsLoops
LoopsOf(q) == {Onward({s}, SegSet(q), Len(q)) : s \in SegSet(q)}

\* two segments that follow each other in a chain meet in a point
Connected(s, t) == s.p2 = t.p1 \/ t.p2 = s.p1

\* C19: for segments that form k vertex-disjoint simple closed directed
\* loops, in any order, combineSegments yields exactly k faces, each made of
\* exactly the segments of one loop, consecutive segments connected; no loop
\* is split and no face mixes two loops.
C19_OneFacePerLoop ==
    (cpc = "done" /\ IsLoops(csegments)) =>
        /\ Len(cfaces) = Cardinality(LoopsOf(csegments))
        /\ Len(chains) = Len(cfaces)
        /\ {SegSet(chains[c]) : c \in 1..Len(chains)} = LoopsOf(csegments)
        /\ \A c \in 1..Len(chains) :
              /\ Cardinality(SegSet(chains[c])) = Len(chains[c])
              /\ \A k \in 1..(Len(chains[c]) - 1) : Connected(chains[c][k], chains[c][k + 1])
              /\ cfaces[c] = [k \in 1..Len(chains[c]) |-> chains[c][k].a]

\* a loop of three given out of order, and a loop of two together with a
\* second loop of two, were chained
C19_Witness ==
    /\ cpc = "done"
    /\ IsLoops(csegments)
    /\ \/ /\ Len(csegments) = 3
          /\ csegments[1].p1.id = 2 /\ csegments[2].p1.id = 1 /\ csegments[3].p1.id = 3
          /\ Len(cfaces) = 1
       \/ /\ Len(csegments) = 4
          /\ csegments[1].p1.id = 1 /\ csegments[2].p1.id = 3
          /\ Len(cfaces) = 2

----------------------------------------------------------------------------
(* Properties of the mesh *)

\* the positions of the lines of one kind
LinesOf(kind) == {p \in 1..Len(out) : out[p].kind = kind}

\* is the polygon one that is written: it has a texture name, and not the
\* none name nor the sky
Rendered(poly) == poly.texture \notin {"", "-", "F_SKY1"}

\* the g line that the line at p stands under; 0 if there is none before it
GroupOf(p) ==
    IF \E q \in LinesOf("g") : q < p
    THEN CHOOSE q \in LinesOf("g") : q < p /\ \A r \in LinesOf("g") : r < p => r <= q
    ELSE 0

\* the vertex indices of the f lines under the g line at q, in order
RECURSIVE FacesUnder(_, _)
FacesUnder(q, p) ==
    IF p > Len(out) \/ out[p].kind = "g" THEN <<>>
    ELSE (IF out[p].kind = "f"
          THEN << [i \in 1..Len(out[p].pairs) |-> out[p].pairs[i][1]] >>
          ELSE <<>>) \o FacesUnder(q, p + 1)

\* C20: in the mesh objmap writes, polygons with texture '-' or 'F_SKY1' and
\* polygons without a texture give no g, usemtl, vt or f line, and the
\* numbering stays consistent: the i-th texture index of every f line is the
\* ordinal of the vt line written for that vertex, and every vertex index of
\* every f line lies in 1..(number of v lines).
C20_MeshConsistent ==
    opc = "done" =>
        /\ {out[q].polyindex : q \in LinesOf("g")} = {j \in 1..Len(polys) : Rendered(polys[j])}
        /\ Cardinality(LinesOf("g")) = Cardinality({j \in 1..Len(polys) : Rendered(polys[j])})
        /\ Cardinality(LinesOf("usemtl")) = Cardinality(LinesOf("g"))
        /\ \A q \in LinesOf("g") :
              /\ out[q].texture = polys[out[q].polyindex].texture
              /\ out[q + 1].kind = "usemtl"
              /\ FacesUnder(q, q + 1) = polys[out[q].polyindex].faces
        /\ \A p \in LinesOf("vt") \cup LinesOf("f") \cup LinesOf("usemtl") : GroupOf(p) # 0
        /\ \A p \in LinesOf("vt") : \E f \in LinesOf("f") :
              p \in (f - Len(out[f].pairs))..(f - 1)
        /\ \A f \in LinesOf("f") :
              \A i \in 1..Len(out[f].pairs) :
                  LET vt == f - Len(out[f].pairs) + i - 1
                  IN  /\ vt \in LinesOf("vt")
                      /\ out[f].pairs[i][2] = Cardinality({p \in LinesOf("vt") : p <= vt})
                      /\ out[f].pairs[i][1] \in 1..Cardinality(LinesOf("v"))

\* a room with a sky ceiling was written: the walls and the floor are in the
\* mesh, the ceiling polygon is in polys but not in the mesh
C20_Witness ==
    /\ opc = "done"
    /\ Len(edit.sectors) = 1
    /\ edit.sectors[1].tx_ceil = "F_SKY1"
    /\ edit.sectors[1].tx_floor = "FLOOR0_1"
    /\ Len(polys) = 6
    /\ Cardinality(LinesOf("g")) = 5
    /\ Cardinality(LinesOf("f")) = 5

----------------------------------------------------------------------------
(* Properties of the vertex numbering *)

\* the number of sides the k-th line has
SidesOf(k) ==
    (IF edit.linedefs[k].front # -1 THEN 1 ELSE 0)
        + (IF edit.linedefs[k].back # -1 THEN 1 ELSE 0)

\* the vertex indices allocated for the k-th line
IndicesOf(k) == FrontBase(k)..(FrontBase(k) + 4 * SidesOf(k) - 1)

\* the four vertices from index `base` on are those of a side of the k-th
\* line in the sector of sidedef sd: lower left, upper left, lower right,
\* upper right
FourAt(base, k, sd) ==
    LET p1 == edit.vertexes[edit.linedefs[k].vx_a + 1]
        p2 == edit.vertexes[edit.linedefs[k].vx_b + 1]
        sector == edit.sectors[edit.sidedefs[sd + 1].sector + 1]
    IN  /\ base + 3 <= Len(vertexes)
        /\ vertexes[base] = <<p1.x, sector.z_floor, p1.y>>
        /\ vertexes[base + 1] = <<p1.x, sector.z_ceil, p1.y>>
        /\ vertexes[base + 2] = <<p2.x, sector.z_floor, p2.y>>
        /\ vertexes[base + 3] = <<p2.x, sector.z_ceil, p2.y>>

\* the boundary segments of all sectors, floors and ceilings
AllSegments ==
    UNION { SegSet(edit.sectors[j].floor.segments) \cup SegSet(edit.sectors[j].ceil.segments) :
              j \in 1..Len(edit.sectors) }

\* the segment was stored for the k-th line: its indices are of that line
\* and lie over the segment's own points
SegmentOfLine(s, k) ==
    /\ s.a \in IndicesOf(k) /\ s.b \in IndicesOf(k)
    /\ {s.p1, s.p2} = {edit.vertexes[edit.linedefs[k].vx_a + 1],
                       edit.vertexes[edit.linedefs[k].vx_b + 1]}
    /\ <<vertexes[s.a][1], vertexes[s.a][3]>> = <<s.p1.x, s.p1.y>>
    /\ <<vertexes[s.b][1], vertexes[s.b][3]>> = <<s.p2.x, s.p2.y>>

\* C21: while the linedefs are processed in source order, the next vertex
\* index is 1 plus the number of vertices emitted; each present side (front,
\* then back) of each line appends exactly four vertices (lower left, upper
\* left, lower right, upper right) and advances the index by four; every
\* index in a wall face or a boundary segment is of a vertex appended for
\* that same line.  (Stated between the lines, while no exception has ended
\* the processing.)
C21_VertexNumbering ==
    (opc = "lines" /\ oerr = "none") =>
        /\ vi = 1 + Len(vertexes)
        /\ Len(vertexes) = 4 * SidesBefore(li + 1)
        /\ \A k \in 1..li :
              /\ edit.linedefs[k].front # -1 => FourAt(FrontBase(k), k, edit.linedefs[k].front)
              /\ edit.linedefs[k].back # -1 =>
                    FourAt(FrontBase(k) + (IF edit.linedefs[k].front # -1 THEN 4 ELSE 0),
                           k, edit.linedefs[k].back)
        /\ \A j \in 1..Len(polys) :
              \A f \in 1..Len(polys[j].faces) :
                  \E k \in 1..li :
                      \A i \in 1..Len(polys[j].faces[f]) : polys[j].faces[f][i] \in IndicesOf(k)
        /\ \A s \in AllSegments : \E k \in 1..li : SegmentOfLine(s, k)
        /\ Cardinality(AllSegments) = 2 * SidesBefore(li + 1)

\* the two-sided line of the two rooms has been processed with its step
\* faces: twelve vertices, three lines' worth of segments
C21_Witness ==
    /\ opc = "lines"
    /\ oerr = "none"
    /\ li = 2
    /\ SidesOf(2) = 2
    /\ vi = 13
    /\ Len(polys) = 2
    /\ Cardinality(AllSegments) = 6

----------------------------------------------------------------------------
(* Every segment ends up in one chain *)

\* how often x occurs in the list q
CountIn(q, x) == Cardinality({i \in 1..Len(q) : q[i] = x})

\* how often x occurs in the chains
CountInChains(chs, x) ==
    Cardinality({ij \in (1..Len(chs)) \X (1..MaxSegs + 1) :
                    ij[2] <= Len(chs[ij[1]]) /\ chs[ij[1]][ij[2]] = x})

\* the segments the polygon was given and those the chains hold
Occurring == SegSet(csegments) \cup UNION {SegSet(chains[c]) : c \in 1..Len(chains)}

\* C23: combineSegments places every input segment in exactly one chain: for
\* every input, also one that does not close, the multiset of the segments
\* over all chains is the multiset of the input segments (none dropped, none
\* used twice), and as many faces are added as there are chains.
C23_EverySegmentOnce ==
    cpc = "done" =>
        /\ \A x \in Occurring : CountInChains(chains, x) = CountIn(csegments, x)
        /\ Len(cfaces) = Len(chains)
        /\ \A c \in 1..Len(chains) : Len(cfaces[c]) = Len(chains[c])

\* an input that has a segment twice and does not close, chained
C23_Witness ==
    /\ cpc = "done"
    /\ Len(csegments) = 4
    /\ \E i, j \in 1..4 : i < j /\ csegments[i] = csegments[j]
    /\ Len(chains) = 3
    /\ \E c \in 1..3 : Len(chains[c]) = 2 /\ chains[c][1].p2 # chains[c][2].p1

----------------------------------------------------------------------------
(* to_file calls after a call that stopped *)

\* WadIO.save() has run on the file under this name
CompleteAt(d, p) == d[p].exists /\ d[p].complete

\* the file has been the target's content: a to_file call made it, or it
\* lay under the target name before the first call
WasTarget(f) == f.ver > 0 \/ f = OldTarget

\* the most recent completely written content of the target on the disk d:
\* the complete file under the target name, else the complete one that was
\* renamed to the backup name
LatestComplete(d) ==
    IF CompleteAt(d, Target) THEN d[Target]
    ELSE IF CompleteAt(d, TmpName(Target)) /\ WasTarget(d[TmpName(Target)])
         THEN d[TmpName(Target)]
    ELSE NoFile

\* C24: over any sequence of to_file calls on one target, each of which may
\* stop at any step, the most recent completely written content is always on
\* the disk under the target name or the backup name: no step takes it away
\* unless a newer complete content lies there, and so a call begun after one
\* that stopped never deletes the surviving backup before a newer complete
\* content is written.
C24_LatestCompleteKept ==
    [][LatestComplete(disk) # NoFile =>
          \E p \in {Target, TmpName(Target)} :
              \/ disk'[p] = LatestComplete(disk)
              \/ CompleteAt(disk', p) /\ disk'[p].ver > LatestComplete(disk).ver]_vars

----------------------------------------------------------------------------
(* Loading into the sum of two WADs *)

\* two WADs have been constructed; a file lies ready to be loaded
InitSum ==
    /\ structure \in StructureIds
    /\ \E X \in SeqsUpTo(Pool, MaxLen) :
          disk = [p \in Paths |-> IF p = "in.wad" THEN File(X, 0, TRUE) ELSE NoFile]
    /\ pc = "new"
    /\ wad1 = NewWAD(structure)
    /\ wad2 = NewWAD(structure)
    /\ wio = <<>>
    /\ err = "none"
    /\ saveLog = <<>>
    /\ IdleMerge /\ IdleFS /\ IdleChain /\ IdleObj /\ IdleMtl

\* wad1 = wad1 + wad2
__add__ ==
    /\ pc = "new"
    /\ wad1' = WadAdd(wad1, wad2)
    /\ pc' = "init"
    /\ UNCHANGED <<structure, disk, wad2, wio, err, saveLog>>
    /\ UNCHANGED notWad

\* the sum, then from_file on it, to_file, and the file read back
NextSum ==
    \/ __add__
    \/ \E source \in Sources : from_file(source)
    \/ to_file
    \/ reload

SpecSum == InitSum /\ [][NextSum]_vars

\* the group object that from_file loads into for the field f
LoadedGroup(w, f) == GroupAt(w, w.groups[FieldIndex(StructOf(w.structure), f)])

\* C22: for a WAD obtained by construction, from_file and __add__, the group
\* objects from_file loads into (the entries of self.groups) are the objects
\* that attribute access and to_file use (self.<field>), and so what
\* from_file loaded into a WAD returned by __add__ is what a following
\* to_file writes.
C22_SameGroupObjects ==
    /\ pc \in {"init", "loaded", "saved", "reloaded", "failed"} =>
          \A f \in FieldNames(StructOf(wad1.structure)) :
              wad1.groups[FieldIndex(StructOf(wad1.structure), f)] = wad1.dict[f]
    /\ pc = "saved" =>
          \A k \in 1..Len(write_order) :
              saveLog[k].recs = save_wadio(LoadedGroup(wad1, write_order[k]))

\* a file with a lump was loaded into the sum and the to_file that followed
\* wrote nothing
C22_LoadedNotWritten ==
    /\ pc = "saved"
    /\ \E i \in 1..Len(wio) : wio[i].claims # <<>>
    /\ Flatten(saveLog) = <<>>

====
